---- MODULE Spec2Model ----
(***************************************************************************)
(* Stack trace decoder of young1the/auto-fix: the hash-stripping           *)
(* normalizer (extractBaseName), the stack trace parser (parseStackTrace), *)
(* the source map resolver (findSourceMapFile) and the per-frame and batch *)
(* decoding of the CLI (decode-trace.js), of the wrapper                   *)
(* (StackTraceDecoder) and of the ink front end's pipe handler; the        *)
(* orchestrator (AutoFixOrchestrator) with its processed-errors DB and the *)
(* Claude Code client and the Slack notifier; the navigator and the input  *)
(* reader of the CLI.                                                      *)
(*                                                                         *)
(* A JavaScript string is a sequence of one-character strings.             *)
(***************************************************************************)
EXTENDS Integers, Sequences, FiniteSets, TLC

VARIABLES
    \* normalizer run: extractBaseName(fileName), then applied to its result
    fileName, baseName, baseName2, nPc,
    \* parser run: parseStackTrace(stackTrace)
    stackTrace, parsed, pPc,
    \* decoding run: the program, its configuration, the directory snapshot,
    \* the input text, its frames, the frame in work, the position in the code,
    \* the consumer in use, the consumers opened and not destroyed, the
    \* per-frame reports, and the wrapper's return value
    impl, ide, dirExists, dirFiles, input, entries, idx, dPc, consumer, live,
    out, result,
    \* resolver run: findSourceMapFile(fileName) of program impl on the snapshot
    \* dirExists, dirFiles, with config.debug; its debug output; a second call
    debug, resolved, resolved2, rLog, rPc,
    \* context run: the embedded content of the original source (its lines),
    \* the original position, the radius, and the window built for them
    content, position, radius, window, cPc,
    \* the window the wrapper builds when constructed with that radius
    wrapperWindow,
    \* orchestrator: its configuration, the processed-errors DB, the errors of
    \* the run in work and the one being processed, the position in the code,
    \* the runs started, the errors handed to processError in this run and
    \* per hash over all runs, the steps taken for the error in work, and the
    \* state of the fixError call in work
    mode, maxFixesPerRun, dryRun, maxRetries, db, errorsToProcess, errIdx, oPc,
    runs, handed, procCount, steps, retries, attempts, sleeps, fixResult,
    \* the notifier's configuration, what its last call settled to and the
    \* summary it was given; this.stats, the records written per status, the
    \* calls of processError that returned, and errors.length of the run
    slackEnabled, webhook, notifyResult, summary, stats, records, returned,
    collected,
    \* navigator: parsed.length, currentIndex, the index before the last key
    \* and that key, whether onKeyPress is registered, raw mode, the position
    \* in the code, and the renderings in flight
    navLen, currentIndex, prevIndex, lastKey, listening, rawMode, navPc,
    rendering,
    \* input reader: the lines read so far, emptyLineCount, input, and the
    \* text getInput resolved with
    rlLines, emptyLineCount, inputText, submitted

normVars == <<fileName, baseName, baseName2, nPc>>
parseVars == <<stackTrace, parsed, pPc>>
decVars == <<impl, ide, dirExists, dirFiles, input, entries, idx, dPc, consumer,
             live, out, result>>
resVars == <<debug, resolved, resolved2, rLog, rPc>>
ctxVars == <<content, position, radius, window, cPc, wrapperWindow>>
orchVars == <<mode, maxFixesPerRun, dryRun, maxRetries, db, errorsToProcess,
              errIdx, oPc, runs, handed, procCount, steps, retries, attempts,
              sleeps, fixResult, slackEnabled, webhook, notifyResult, summary,
              stats, records, returned, collected>>
navVars == <<navLen, currentIndex, prevIndex, lastKey, listening, rawMode,
             navPc, rendering>>
rlVars == <<rlLines, emptyLineCount, inputText, submitted>>
vars == <<normVars, parseVars, decVars, resVars, ctxVars, orchVars, navVars,
          rlVars>>

Null == "null"

\* undefined, the value of an optional chain on null
Undefined == "undefined"

\* the hashes of the errors the collector may return (error.hash)
Hashes == {"h1", "h2", "h3"}

(***************************************************************************)
(* Bounds of the model.                                                    *)
(***************************************************************************)
\* longest enumerated file name body (the text before the final ".js")
MaxNameLen == 4
\* most lines of an enumerated trace
MaxLines == 2

(***************************************************************************)
(* Characters and strings.                                                 *)
(***************************************************************************)
Digits == {"0", "1", "2", "3", "4", "5", "6", "7", "8", "9"}

Lowers == {"a", "b", "c", "d", "e", "f", "g", "h", "i", "j", "k", "l", "m",
           "n", "o", "p", "q", "r", "s", "t", "u", "v", "w", "x", "y", "z"}

Uppers == {"A", "B", "C", "D", "E", "F", "G", "H", "I", "J", "K", "L", "M",
           "N", "O", "P", "Q", "R", "S", "T", "U", "V", "W", "X", "Y", "Z"}

\* \s of a JavaScript regular expression, as far as the inputs use it
Spaces == {" ", "\t", "\n", "\r"}

SetMax(S) == CHOOSE x \in S : \A y \in S : y <= x

SetMin(S) == CHOOSE x \in S : \A y \in S : x <= y

\* String.prototype.substring(a, b), 0-based, b exclusive
Substring(s, a, b) == SubSeq(s, a + 1, b)

\* String.prototype.substring(a)
SubstringFrom(s, a) == SubSeq(s, a + 1, Len(s))

\* String.prototype.lastIndexOf(c) for a one-character c: 0-based, -1 when absent
LastIndexOf(s, c) ==
    LET I == {i \in 1..Len(s) : s[i] = c}
    IN  IF I = {} THEN -1 ELSE SetMax(I) - 1

\* String.prototype.indexOf(c) for a one-character c
IndexOf(s, c) ==
    LET I == {i \in 1..Len(s) : s[i] = c}
    IN  IF I = {} THEN -1 ELSE SetMin(I) - 1

\* String.prototype.endsWith(t)
EndsWith(s, t) ==
    /\ Len(s) >= Len(t)
    /\ SubSeq(s, Len(s) - Len(t) + 1, Len(s)) = t

\* String.prototype.startsWith(t, at), at 0-based
StartsWithAt(s, t, at) ==
    /\ at + Len(t) <= Len(s)
    /\ SubSeq(s, at + 1, at + Len(t)) = t

JsExt == <<".", "j", "s">>

JsMapExt == <<".", "j", "s", ".", "m", "a", "p">>

MapExt == <<".", "m", "a", "p">>

(***************************************************************************)
(* extractBaseName: the hash-stripping normalizer.                         *)
(***************************************************************************)
\* fileName.replace(/\.js$/, '')
StripJsExt(f) == IF EndsWith(f, JsExt) THEN Substring(f, 0, Len(f) - 3) ELSE f

\* /^\d+$/.test(h)
AllDigits(h) == Len(h) >= 1 /\ \A i \in 1..Len(h) : h[i] \in Digits

\* /^[a-zA-Z0-9_-]{2,}$/.test(h)
HashAlphabet(h) ==
    /\ Len(h) >= 2
    /\ \A i \in 1..Len(h) : h[i] \in Lowers \cup Uppers \cup Digits \cup {"_", "-"}

\* /[A-Z]/.test(h) && /[a-z]/.test(h)
HasUpperAndLower(h) ==
    /\ \E i \in 1..Len(h) : h[i] \in Uppers
    /\ \E i \in 1..Len(h) : h[i] \in Lowers

\* /\d/.test(h)
HasDigit(h) == \E i \in 1..Len(h) : h[i] \in Digits

\* a plausible slip: the comment's "6 characters or more" taken as the rule,
\* and the numeric build counter forgotten
IsHashSixOrMore(h) ==
    /\ Len(h) >= 6
    /\ \A i \in 1..Len(h) : h[i] \in Lowers \cup Uppers \cup Digits \cup {"_", "-"}
    /\ (HasUpperAndLower(h) \/ HasDigit(h))

\* a plausible slip: any suffix of two or more hash characters counts as a hash
IsHashNoEvidence(h) == AllDigits(h) \/ HashAlphabet(h)

\* the two branches that strip possibleHash
IsHash(h) ==
    \/ AllDigits(h)
    \/ (HashAlphabet(h) /\ (HasUpperAndLower(h) \/ HasDigit(h)))

\* a plausible slip: the suffix is stripped once, without the recursive call
extractBaseNameOnce(f) ==
    LET nameWithoutExt == StripJsExt(f)
        lastDashIndex == LastIndexOf(nameWithoutExt, "-")
    IN  IF lastDashIndex > 0 /\ IsHash(SubstringFrom(nameWithoutExt, lastDashIndex + 1))
        THEN Substring(nameWithoutExt, 0, lastDashIndex)
        ELSE nameWithoutExt

RECURSIVE extractBaseNameRec(_)
extractBaseNameRec(f) ==
    LET nameWithoutExt == StripJsExt(f)
        lastDashIndex == LastIndexOf(nameWithoutExt, "-")
    IN  IF lastDashIndex > 0 /\ IsHash(SubstringFrom(nameWithoutExt, lastDashIndex + 1))
        THEN extractBaseNameRec(Substring(nameWithoutExt, 0, lastDashIndex) \o JsExt)
        ELSE nameWithoutExt

extractBaseName(f) == extractBaseNameRec(f)

(***************************************************************************)
(* Normalizer runs: the inputs are every name body of at most MaxNameLen   *)
(* characters over NameAlphabet followed by ".js", and the names the       *)
(* documentation quotes.                                                   *)
(***************************************************************************)
NameAlphabet == {"j", "s", "B", "1", "-", "_", "."}

NameBodies == UNION {[1..k -> NameAlphabet] : k \in 0..MaxNameLen}

QuotedNames == {
    <<"u", "s", "e", "A", "c", "c", "e", "s", "s", "i", "b", "i", "l", "i", "t", "y", "S", "t", "o", "r", "e", "-", "Q", "8", "J", "O", "a", "M", "C", "l", ".", "j", "s">>,
    <<"u", "s", "e", "A", "c", "c", "e", "s", "s", "i", "b", "i", "l", "i", "t", "y", "S", "t", "o", "r", "e", "-", "K", "b", "W", "r", "k", "Z", "-", "9", ".", "j", "s">>,
    <<"m", "y", "-", "c", "o", "m", "p", "o", "n", "e", "n", "t", "-", "a", "1", "b", "2", ".", "j", "s">>,
    <<"i", "n", "d", "e", "x", "-", "9", ".", "j", "s">>,
    <<"c", "h", "u", "n", "k", "-", "3", "s", ".", "j", "s">>,
    <<"c", "h", "u", "n", "k", "-", "B", "g", "l", "o", "p", ".", "j", "s">>,
    <<"f", "o", "o", "-", "a", "b", ".", "j", "s">>,
    <<"f", "o", "o", "-", "b", "a", "r", ".", "j", "s">> }

NormInputs == {b \o JsExt : b \in NameBodies} \cup QuotedNames

InitNorm ==
    /\ fileName \in NormInputs
    /\ baseName = Null
    /\ baseName2 = Null
    /\ nPc = "call"
    /\ stackTrace = <<>>
    /\ parsed = Null
    /\ pPc = "idle"
    /\ impl = "none"
    /\ ide = Null
    /\ dirExists = FALSE
    /\ dirFiles = <<>>
    /\ input = <<>>
    /\ entries = <<>>
    /\ idx = 0
    /\ dPc = "idle"
    /\ consumer = [isNull |-> TRUE]
    /\ live = 0
    /\ out = <<>>
    /\ result = [isNull |-> TRUE]
    /\ debug = FALSE
    /\ resolved = Null
    /\ resolved2 = Null
    /\ rLog = <<>>
    /\ rPc = "idle"
    /\ content = Null
    /\ position = [isNull |-> TRUE]
    /\ radius = 0
    /\ window = Null
    /\ cPc = "idle"
    /\ wrapperWindow = Null
    /\ mode = "once"
    /\ maxFixesPerRun = 1
    /\ dryRun = FALSE
    /\ maxRetries = 1
    /\ db = [h \in Hashes |-> "none"]
    /\ errorsToProcess = <<>>
    /\ errIdx = 0
    /\ oPc = "idle"
    /\ runs = 0
    /\ handed = 0
    /\ procCount = [h \in Hashes |-> 0]
    /\ steps = <<>>
    /\ retries = 0
    /\ attempts = 0
    /\ sleeps = 0
    /\ fixResult = "none"
    /\ navLen = 0
    /\ currentIndex = 0
    /\ prevIndex = 0
    /\ lastKey = "none"
    /\ listening = FALSE
    /\ rawMode = FALSE
    /\ navPc = "idle"
    /\ rendering = 0
    /\ rlLines = <<>>
    /\ emptyLineCount = 0
    /\ inputText = <<>>
    /\ submitted = Null
    /\ slackEnabled = FALSE
    /\ webhook = "unset"
    /\ notifyResult = [isNull |-> TRUE]
    /\ summary = [isNull |-> TRUE]
    /\ stats = [totalErrors |-> 0, totalFixed |-> 0, totalFailed |-> 0, totalSkipped |-> 0]
    /\ records = [FIXED |-> 0, FAILED |-> 0, SKIPPED |-> 0]
    /\ returned = 0
    /\ collected = 0

\* baseName = extractBaseName(fileName)
Normalize ==
    /\ nPc = "call"
    /\ baseName' = extractBaseName(fileName)
    /\ nPc' = "returned"
    /\ UNCHANGED <<fileName, baseName2>>

\* extractBaseName applied to its own result
NormalizeAgain ==
    /\ nPc = "returned"
    /\ baseName2' = extractBaseName(baseName)
    /\ nPc' = "again"
    /\ UNCHANGED <<fileName, baseName>>

NormNext ==
    \/ (Normalize /\ UNCHANGED <<parseVars, decVars, resVars, ctxVars, orchVars, navVars, rlVars>>)
    \/ (NormalizeAgain /\ UNCHANGED <<parseVars, decVars, resVars, ctxVars, orchVars, navVars, rlVars>>)

SpecNorm == InitNorm /\ [][NormNext]_vars

(***************************************************************************)
(* parseStackTrace: the three patterns, matched as a backtracking regular  *)
(* expression engine matches them (leftmost start, greedy quantifiers,     *)
(* successive non-overlapping matches of matchAll).  Positions are         *)
(* 0-based, as in JavaScript.                                              *)
(***************************************************************************)
\* the character of s at 0-based position i
CharAt(s, i) == s[i + 1]

DigitSeq == <<"0", "1", "2", "3", "4", "5", "6", "7", "8", "9">>

DigitVal(c) == (CHOOSE n \in 1..10 : DigitSeq[n] = c) - 1

\* parseInt of a string of digits
RECURSIVE ParseInt(_)
ParseInt(ds) ==
    IF Len(ds) = 0 THEN 0
    ELSE 10 * ParseInt(SubSeq(ds, 1, Len(ds) - 1)) + DigitVal(ds[Len(ds)])

\* where the longest run of digits starting at i ends (exclusive)
DigitRunEnd(s, i) ==
    SetMin({j \in i..Len(s) : j = Len(s) \/ CharAt(s, j) \notin Digits})

\* the first position at or after q holding a character of set C, or -1
FirstOf(s, q, C) ==
    LET I == {i \in q..(Len(s) - 1) : CharAt(s, i) \in C}
    IN  IF I = {} THEN -1 ELSE SetMin(I)

NoMatch == [found |-> FALSE, file |-> <<>>, line |-> 0, column |-> 0, end |-> 0]

\* a plausible slip: (\d*) for the column, so that ':<line>:' alone matches
PosTailOptionalColumn(s, g1, c, close) ==
    IF c < 0 \/ c >= Len(s) \/ CharAt(s, c) # ":" THEN NoMatch
    ELSE LET e1 == DigitRunEnd(s, c + 1)
         IN  IF e1 = c + 1 THEN NoMatch
             ELSE LET e2 == IF e1 < Len(s) /\ CharAt(s, e1) = ":"
                            THEN DigitRunEnd(s, e1 + 1) ELSE e1
                  IN  IF close /\ (e2 >= Len(s) \/ CharAt(s, e2) # ")") THEN NoMatch
                      ELSE [found |-> TRUE, file |-> g1,
                            line |-> ParseInt(Substring(s, c + 1, e1)),
                            column |-> IF e2 > e1 + 1
                                       THEN ParseInt(Substring(s, e1 + 1, e2)) ELSE 0,
                            end |-> IF close THEN e2 + 1 ELSE e2]

\* ':(\d+):(\d+)' at position c, followed by '\)' when close; g1 is group 1
PosTail(s, g1, c, close) ==
    IF c < 0 \/ c >= Len(s) \/ CharAt(s, c) # ":" THEN NoMatch
    ELSE LET e1 == DigitRunEnd(s, c + 1)
         IN  IF e1 = c + 1 \/ e1 >= Len(s) \/ CharAt(s, e1) # ":" THEN NoMatch
             ELSE LET e2 == DigitRunEnd(s, e1 + 1)
                  IN  IF e2 = e1 + 1 THEN NoMatch
                      ELSE IF close /\ (e2 >= Len(s) \/ CharAt(s, e2) # ")") THEN NoMatch
                      ELSE [found |-> TRUE, file |-> g1,
                            line |-> ParseInt(Substring(s, c + 1, e1)),
                            column |-> ParseInt(Substring(s, e1 + 1, e2)),
                            end |-> IF close THEN e2 + 1 ELSE e2]

\* '([^:]+)' starting at q, then the position tail
GroupToColon(s, q, close) ==
    LET c == FirstOf(s, q, {":"})
    IN  IF c <= q THEN NoMatch ELSE PosTail(s, Substring(s, q, c), c, close)

\* /https?:\/\/[^\s]+\/([^/:]+\.js):(\d+):(\d+)/ tried at start position p
MatchUrlAt(s, p) ==
    LET a == IF StartsWithAt(s, <<"h", "t", "t", "p", "s", ":", "/", "/">>, p) THEN p + 8
             ELSE IF StartsWithAt(s, <<"h", "t", "t", "p", ":", "/", "/">>, p) THEN p + 7 ELSE -1
    IN  IF a < 0 THEN NoMatch
        ELSE LET sp == FirstOf(s, a, Spaces)
                 lim == IF sp < 0 THEN Len(s) ELSE sp
                 \* [^\s]+ is s[a..e), then '/' at e, then group 1 up to the ':'
                 Try(e) ==
                    IF CharAt(s, e) # "/" THEN NoMatch
                    ELSE LET c == FirstOf(s, e + 1, {"/", ":"})
                         IN  IF c < e + 5 \/ ~EndsWith(Substring(s, e + 1, c), JsExt)
                             THEN NoMatch
                             ELSE PosTail(s, Substring(s, e + 1, c), c, FALSE)
                 E == {e \in (a + 1)..(lim - 1) : Try(e).found}
             IN  IF E = {} THEN NoMatch ELSE Try(SetMax(E))

\* /at .+ \(([^:]+):(\d+):(\d+)\)/ tried at start position p
MatchAtParenAt(s, p) ==
    IF ~StartsWithAt(s, <<"a", "t", " ">>, p) THEN NoMatch
    ELSE LET nl == FirstOf(s, p + 3, {"\n", "\r"})
             lim == IF nl < 0 THEN Len(s) ELSE nl
             \* .+ is s[p+3..e), then ' (' at e
             Try(e) ==
                IF ~StartsWithAt(s, <<" ", "(">>, e) THEN NoMatch
                ELSE GroupToColon(s, e + 2, TRUE)
             E == {e \in (p + 4)..lim : Try(e).found}
         IN  IF E = {} THEN NoMatch ELSE Try(SetMax(E))

\* /at ([^:]+):(\d+):(\d+)/ tried at start position p
MatchAtBareAt(s, p) ==
    IF ~StartsWithAt(s, <<"a", "t", " ">>, p) THEN NoMatch
    ELSE GroupToColon(s, p + 3, FALSE)

\* the patterns array, in its order
MatchAt(k, s, p) ==
    CASE k = 1 -> MatchUrlAt(s, p)
      [] k = 2 -> MatchAtParenAt(s, p)
      [] k = 3 -> MatchAtBareAt(s, p)

\* the leftmost match of pattern k in s starting at or after from
FirstMatch(k, s, from) ==
    LET P == {p \in from..(Len(s) - 1) : MatchAt(k, s, p).found}
    IN  IF P = {} THEN NoMatch ELSE MatchAt(k, s, SetMin(P))

\* [...line.matchAll(pattern)]
RECURSIVE MatchAll(_, _, _)
MatchAll(k, s, from) ==
    LET m == FirstMatch(k, s, from)
    IN  IF ~m.found THEN <<>> ELSE <<m>> \o MatchAll(k, s, m.end)

\* stackTrace.split('\n')
RECURSIVE SplitLines(_)
SplitLines(t) ==
    LET i == IndexOf(t, "\n")
    IN  IF i < 0 THEN <<t>>
        ELSE <<Substring(t, 0, i)>> \o SplitLines(SubstringFrom(t, i + 1))

\* String.prototype.trim
Trim(s) ==
    LET I == {i \in 1..Len(s) : s[i] \notin Spaces}
    IN  IF I = {} THEN <<>> ELSE SubSeq(s, SetMin(I), SetMax(I))

\* match[1].split('/').pop()
LastSegment(f) == SubstringFrom(f, LastIndexOf(f, "/") + 1)

\* the object pushed for one match of one line
Frame(ln, m) ==
    [original |-> Trim(ln), file |-> LastSegment(m.file),
     line |-> m.line, column |-> m.column]

\* the frames one line contributes: pattern by pattern, match by match
LineFrames(ln) ==
    LET F(k) == LET ms == MatchAll(k, ln, 0)
                IN  [i \in 1..Len(ms) |-> Frame(ln, ms[i])]
    IN  F(1) \o F(2) \o F(3)

RECURSIVE ConcatFrames(_)
ConcatFrames(lines) ==
    IF Len(lines) = 0 THEN <<>>
    ELSE LineFrames(Head(lines)) \o ConcatFrames(Tail(lines))

parseStackTrace(t) == ConcatFrames(SplitLines(t))

(***************************************************************************)
(* Parser runs.  A trace is one to MaxLines lines joined by "\n"; a line   *)
(* is a lead, a location, a position and a tail, or one of a few whole     *)
(* lines.                                                                  *)
(***************************************************************************)
LineLeads == { <<>>, <<"a", "t", " ">>, <<"a", "t", " ", "f", "o", "o", " ", "(">> }

LineLocs == { <<"b", "u", "n", "d", "l", "e", ".", "j", "s">>, <<"h", "t", "t", "p", "s", ":", "/", "/", "e", ".", "c", "o", "m", "/", "j", "s", "/", "a", "p", "p", "-", "B", "1", ".", "j", "s">> }

LinePoss == { <<":", "1", "0", ":", "5">>, <<":", "1", "0">> }

LineTails == { <<>>, <<")">> }

WholeLines == { <<>>, <<"a", "t", " ", "b", "u", "n", "d", "l", "e", ".", "j", "s", ":", "0", ":", "7">>,
               <<" ", " ", " ", " ", "a", "t", " ", "b", "a", "r", " ", "(", "s", "r", "c", "/", "a", "p", "p", ".", "j", "s", ":", "3", ":", "9", ")">>,
               <<"n", "o", " ", "f", "r", "a", "m", "e", "s", " ", "h", "e", "r", "e">>, <<"a", "t", " ", "a", ".", "j", "s", ":", "1", ":", "1", " ", "h", "t", "t", "p", "s", ":", "/", "/", "e", ".", "c", "o", "m", "/", "b", ".", "j", "s", ":", "2", ":", "2">> }

TraceLines ==
    {a \o b \o c \o d : a \in LineLeads, b \in LineLocs, c \in LinePoss, d \in LineTails}
        \cup WholeLines

RECURSIVE JoinLines(_)
JoinLines(ls) ==
    IF Len(ls) = 1 THEN ls[1]
    ELSE ls[1] \o <<"\n">> \o JoinLines(Tail(ls))

TraceInputs ==
    {JoinLines(ls) : ls \in UNION {[1..n -> TraceLines] : n \in 1..MaxLines}}

InitParse ==
    /\ stackTrace \in TraceInputs
    /\ parsed = Null
    /\ pPc = "call"
    /\ fileName = <<>>
    /\ baseName = Null
    /\ baseName2 = Null
    /\ nPc = "idle"
    /\ impl = "none"
    /\ ide = Null
    /\ dirExists = FALSE
    /\ dirFiles = <<>>
    /\ input = <<>>
    /\ entries = <<>>
    /\ idx = 0
    /\ dPc = "idle"
    /\ consumer = [isNull |-> TRUE]
    /\ live = 0
    /\ out = <<>>
    /\ result = [isNull |-> TRUE]
    /\ debug = FALSE
    /\ resolved = Null
    /\ resolved2 = Null
    /\ rLog = <<>>
    /\ rPc = "idle"
    /\ content = Null
    /\ position = [isNull |-> TRUE]
    /\ radius = 0
    /\ window = Null
    /\ cPc = "idle"
    /\ wrapperWindow = Null
    /\ mode = "once"
    /\ maxFixesPerRun = 1
    /\ dryRun = FALSE
    /\ maxRetries = 1
    /\ db = [h \in Hashes |-> "none"]
    /\ errorsToProcess = <<>>
    /\ errIdx = 0
    /\ oPc = "idle"
    /\ runs = 0
    /\ handed = 0
    /\ procCount = [h \in Hashes |-> 0]
    /\ steps = <<>>
    /\ retries = 0
    /\ attempts = 0
    /\ sleeps = 0
    /\ fixResult = "none"
    /\ navLen = 0
    /\ currentIndex = 0
    /\ prevIndex = 0
    /\ lastKey = "none"
    /\ listening = FALSE
    /\ rawMode = FALSE
    /\ navPc = "idle"
    /\ rendering = 0
    /\ rlLines = <<>>
    /\ emptyLineCount = 0
    /\ inputText = <<>>
    /\ submitted = Null
    /\ slackEnabled = FALSE
    /\ webhook = "unset"
    /\ notifyResult = [isNull |-> TRUE]
    /\ summary = [isNull |-> TRUE]
    /\ stats = [totalErrors |-> 0, totalFixed |-> 0, totalFailed |-> 0, totalSkipped |-> 0]
    /\ records = [FIXED |-> 0, FAILED |-> 0, SKIPPED |-> 0]
    /\ returned = 0
    /\ collected = 0

\* parsed = parseStackTrace(stackTrace)
Parse ==
    /\ pPc = "call"
    /\ parsed' = parseStackTrace(stackTrace)
    /\ pPc' = "returned"
    /\ UNCHANGED stackTrace

ParseNext == Parse /\ UNCHANGED <<normVars, decVars, resVars, ctxVars, orchVars, navVars, rlVars>>

SpecParse == InitParse /\ [][ParseNext]_vars

(***************************************************************************)
(* The source map directory and findSourceMapFile.  A directory listing is *)
(* a sequence (readdirSync order) of files [name, mtime, kind]; kind says  *)
(* what loading the map and querying its consumer give.                    *)
(***************************************************************************)
\* config.sourceMapDir / config.decoder.sourceMapDir
SourceMapDir == <<"d", "i", "s", "t">>

\* the first occurrence of pat in s (0-based), or -1
IndexOfSeq(s, pat) ==
    LET I == {i \in 0..(Len(s) - Len(pat)) : StartsWithAt(s, pat, i)}
    IN  IF I = {} THEN -1 ELSE SetMin(I)

\* String.prototype.replace(pat, rep) with a string pattern: first occurrence
ReplaceFirst(s, pat, rep) ==
    LET i == IndexOfSeq(s, pat)
    IN  IF i < 0 THEN s
        ELSE Substring(s, 0, i) \o rep \o SubstringFrom(s, i + Len(pat))

\* fs.existsSync(path.join(sourceMapDir, name))
ExistsIn(exists, files, name) ==
    exists /\ \E i \in 1..Len(files) : files[i].name = name

\* the listed files that pass the filter of the fuzzy phase, in listing order
FuzzyMatches(files, f) ==
    SelectSeq(files, LAMBDA m :
        /\ EndsWith(m.name, JsMapExt)
        /\ extractBaseName(ReplaceFirst(m.name, JsMapExt, JsExt)) = extractBaseName(f))

\* a plausible slip: ascending sort, so that the oldest match comes first
OldestFirst(ms) ==
    LET oldest == SetMin({ms[i].mtime : i \in 1..Len(ms)})
    IN  ms[SetMin({i \in 1..Len(ms) : ms[i].mtime = oldest})]

\* a plausible slip: the order of equally new matches changes from one call to
\* the next
NewestFirstUnstable(ms) ==
    LET newest == SetMax({ms[i].mtime : i \in 1..Len(ms)})
        I == {i \in 1..Len(ms) : ms[i].mtime = newest}
    IN  ms[IF rPc = "call" THEN SetMin(I) ELSE SetMax(I)]

\* matchingFiles.sort((a, b) => b.mtime - a.mtime)[0]: the sort is stable, so
\* the first listed of the newest files
NewestFirst(ms) ==
    LET newest == SetMax({ms[i].mtime : i \in 1..Len(ms)})
    IN  ms[SetMin({i \in 1..Len(ms) : ms[i].mtime = newest})]

\* a plausible slip: the directory scan comes before the exact probes
findSourceMapFileFuzzyFirst(exists, files, f) ==
    LET ms == FuzzyMatches(files, f)
    IN  IF exists /\ Len(ms) > 0 THEN NewestFirst(ms).name
        ELSE IF ExistsIn(exists, files, f \o MapExt) THEN f \o MapExt
        ELSE IF ExistsIn(exists, files, ReplaceFirst(f, JsExt, JsMapExt))
        THEN ReplaceFirst(f, JsExt, JsMapExt)
        ELSE Null

\* a plausible slip: no directory scan, only the two exact probes
findSourceMapFileExactOnly(exists, files, f) ==
    IF ExistsIn(exists, files, f \o MapExt) THEN f \o MapExt
    ELSE IF ExistsIn(exists, files, ReplaceFirst(f, JsExt, JsMapExt))
    THEN ReplaceFirst(f, JsExt, JsMapExt)
    ELSE Null

\* the name of the map file findSourceMapFile returns the path of, or Null
findSourceMapFile(exists, files, f) ==
    IF ExistsIn(exists, files, f \o MapExt) THEN f \o MapExt
    ELSE IF ExistsIn(exists, files, ReplaceFirst(f, JsExt, JsMapExt))
    THEN ReplaceFirst(f, JsExt, JsMapExt)
    ELSE IF ~exists THEN Null
    ELSE LET ms == FuzzyMatches(files, f)
         IN  IF Len(ms) > 0 THEN NewestFirst(ms).name ELSE Null

\* the listed file of that name
FileNamed(files, name) ==
    files[CHOOSE i \in 1..Len(files) : files[i].name = name]

\* the debug lines of the CLI's findSourceMapFile (config.debug); the wrapper's
\* findSourceMapFile prints nothing
findSourceMapFileLog(im, dbg, exists, files, f) ==
    IF im # "cli" \/ ~dbg THEN <<>>
    ELSE IF ExistsIn(exists, files, f \o MapExt)
            \/ ExistsIn(exists, files, ReplaceFirst(f, JsExt, JsMapExt))
    THEN <<>>
    ELSE LET fuzzy == <<[msg |-> "fuzzy", fileName |-> f, baseName |-> extractBaseName(f)]>>
         IN  IF ~exists
             THEN fuzzy \o <<[msg |-> "dirNotFound", dir |-> SourceMapDir]>>
             ELSE LET ms == FuzzyMatches(files, f)
                      seen == SelectSeq(files, LAMBDA m :
                                /\ EndsWith(m.name, JsMapExt)
                                /\ IndexOfSeq(m.name, <<"u", "s", "e", "A", "c", "c", "e", "s", "s", "i", "b", "i", "l", "i", "t", "y">>) >= 0)
                  IN  fuzzy \o <<[msg |-> "scanning", n |-> Len(files)]>>
                      \o [i \in 1..Len(seen) |-> [msg |-> "file", file |-> seen[i].name]]
                      \o (IF Len(ms) > 0
                          THEN <<[msg |-> "found", n |-> Len(ms), path |-> NewestFirst(ms).name]>>
                          ELSE <<>>)

\* most files of an enumerated directory listing
MaxDirFiles == 2

\* modification times are 1..MaxMtime
MaxMtime == 2

\* what loading a map file and querying it give; "nocontent" maps positions
\* but embeds no source text
MapKinds == {"mapped", "nocontent", "unmapped", "malformed"}

\* the directory snapshots: up to MaxDirFiles files of distinct names
DirListings(names) ==
    LET E == [name : names, mtime : 1..MaxMtime, kind : MapKinds]
    IN  {l \in UNION {[1..n -> E] : n \in 0..MaxDirFiles} :
            \A i, j \in 1..Len(l) : i # j => l[i].name # l[j].name}

(***************************************************************************)
(* Resolver runs: findSourceMapFile is called on a snapshot of the         *)
(* directory, and once more on the same snapshot.                          *)
(***************************************************************************)
ResolveNames == { <<"a", "p", "p", "-", "B", "1", ".", "j", "s">>, <<"a", "p", "p", ".", "j", "s">>, <<"l", "i", "b", ".", "j", "s">> }

ResolveMapNames == { <<"a", "p", "p", "-", "B", "1", ".", "j", "s", ".", "m", "a", "p">>, <<"a", "p", "p", "-", "C", "2", ".", "j", "s", ".", "m", "a", "p">>, <<"a", "p", "p", ".", "j", "s", ".", "m", "a", "p">> }

InitResolve ==
    /\ impl \in {"cli", "wrapper"}
    /\ debug \in BOOLEAN
    /\ fileName \in ResolveNames
    /\ dirExists \in BOOLEAN
    /\ dirFiles \in DirListings(ResolveMapNames)
    /\ (~dirExists => dirFiles = <<>>)
    /\ resolved = Null
    /\ resolved2 = Null
    /\ rLog = <<>>
    /\ rPc = "call"
    /\ content = Null
    /\ position = [isNull |-> TRUE]
    /\ radius = 0
    /\ window = Null
    /\ cPc = "idle"
    /\ baseName = Null
    /\ baseName2 = Null
    /\ nPc = "idle"
    /\ stackTrace = <<>>
    /\ parsed = Null
    /\ pPc = "idle"
    /\ ide = Null
    /\ input = <<>>
    /\ entries = <<>>
    /\ idx = 0
    /\ dPc = "idle"
    /\ consumer = [isNull |-> TRUE]
    /\ live = 0
    /\ out = <<>>
    /\ result = [isNull |-> TRUE]
    /\ wrapperWindow = Null
    /\ mode = "once"
    /\ maxFixesPerRun = 1
    /\ dryRun = FALSE
    /\ maxRetries = 1
    /\ db = [h \in Hashes |-> "none"]
    /\ errorsToProcess = <<>>
    /\ errIdx = 0
    /\ oPc = "idle"
    /\ runs = 0
    /\ handed = 0
    /\ procCount = [h \in Hashes |-> 0]
    /\ steps = <<>>
    /\ retries = 0
    /\ attempts = 0
    /\ sleeps = 0
    /\ fixResult = "none"
    /\ navLen = 0
    /\ currentIndex = 0
    /\ prevIndex = 0
    /\ lastKey = "none"
    /\ listening = FALSE
    /\ rawMode = FALSE
    /\ navPc = "idle"
    /\ rendering = 0
    /\ rlLines = <<>>
    /\ emptyLineCount = 0
    /\ inputText = <<>>
    /\ submitted = Null
    /\ slackEnabled = FALSE
    /\ webhook = "unset"
    /\ notifyResult = [isNull |-> TRUE]
    /\ summary = [isNull |-> TRUE]
    /\ stats = [totalErrors |-> 0, totalFixed |-> 0, totalFailed |-> 0, totalSkipped |-> 0]
    /\ records = [FIXED |-> 0, FAILED |-> 0, SKIPPED |-> 0]
    /\ returned = 0
    /\ collected = 0

\* findSourceMapFile(config, fileName)
Resolve ==
    /\ rPc = "call"
    /\ resolved' = findSourceMapFile(dirExists, dirFiles, fileName)
    /\ rLog' = findSourceMapFileLog(impl, debug, dirExists, dirFiles, fileName)
    /\ rPc' = "returned"
    /\ UNCHANGED <<debug, resolved2>>

\* the same call once more, on the same snapshot
ResolveAgain ==
    /\ rPc = "returned"
    /\ resolved2' = findSourceMapFile(dirExists, dirFiles, fileName)
    /\ rPc' = "again"
    /\ UNCHANGED <<debug, resolved, rLog>>

ResolveNext ==
    \/ (Resolve /\ UNCHANGED <<normVars, parseVars, decVars, ctxVars, orchVars, navVars, rlVars>>)
    \/ (ResolveAgain /\ UNCHANGED <<normVars, parseVars, decVars, ctxVars, orchVars, navVars, rlVars>>)

SpecResolve == InitResolve /\ [][ResolveNext]_vars

(***************************************************************************)
(* The source-map consumer (library source-map ^0.7.4), as the code uses   *)
(* it: originalPositionFor throws for a line below 1; a map of kind        *)
(* "mapped" or "nocontent" answers with a source, a map of kind "unmapped"  *)
(* with source null; sourceContentFor gives the embedded text, here        *)
(* SourceLineCount lines, line n holding n, and null for "nocontent".      *)
(* Embedded text is held as the sequence of its lines; the empty string is *)
(* the one empty line.                                                     *)
(***************************************************************************)
\* lines of the embedded original source of the sample map
SourceLineCount == 56

OriginalSource == <<"s", "r", "c", "/", "A", "p", "p", ".", "t", "s", "x">>

\* null where the code holds an object or null
NullObject == [isNull |-> TRUE]

\* an exception thrown by the call
Throws == [threw |-> TRUE]

\* consumer.originalPositionFor({line, column}) of the sample map, which sends
\* (1, 448) to (53, 24)
OriginalPositionFor(kind, line, column) ==
    IF line < 1 THEN Throws
    ELSE IF kind \in {"mapped", "nocontent"}
    THEN [source |-> OriginalSource, line |-> line + 52, column |-> 24, name |-> Null]
    ELSE [source |-> Null, line |-> Null, column |-> Null, name |-> Null]

\* getOriginalPosition(consumer, line, column)
getOriginalPosition(kind, line, column) ==
    LET pos == OriginalPositionFor(kind, line, column)
    IN  IF pos = Throws THEN Throws
        ELSE IF pos.source = Null THEN NullObject
        ELSE pos

\* the text whose line i holds i, of n lines
RECURSIVE NumberedLines(_)
NumberedLines(n) == IF n = 0 THEN <<>> ELSE Append(NumberedLines(n - 1), n)

\* consumer.sourceContentFor(sourcePath), as its lines
sourceContentFor(kind) ==
    IF kind = "nocontent" THEN Null ELSE NumberedLines(SourceLineCount)

\* !content: null, undefined or the empty string
NoContent(c) == c = Null \/ (Len(c) = 1 /\ c[1] = "")

Max2(a, b) == IF a >= b THEN a ELSE b

Min2(a, b) == IF a <= b THEN a ELSE b

\* for (let i = start; i < end; i++) snippet.push({lineNum, content, isTarget})
RECURSIVE Snippet(_, _, _, _)
Snippet(lines, i, end, line) ==
    IF i >= end THEN <<>>
    ELSE <<[lineNum |-> i + 1, content |-> lines[i + 1], isTarget |-> i + 1 = line]>>
         \o Snippet(lines, i + 1, end, line)

\* a plausible slip: start = Math.max(0, line - contextLines)
getSourceContextLateStart(c, line, contextLines) ==
    IF NoContent(c) THEN Null
    ELSE Snippet(c, Max2(0, line - contextLines), Min2(Len(c), line + contextLines), line)

\* a plausible slip: isTarget: i === line, the 0-based index for the line number
getSourceContextIndexTarget(c, line, contextLines) ==
    IF NoContent(c) THEN Null
    ELSE Snippet(c, Max2(0, line - contextLines - 1), Min2(Len(c), line + contextLines),
                 line + 1)

\* a plausible slip: an empty window where the code returns null
getSourceContextNoNullCheck(c, line, contextLines) ==
    IF NoContent(c) THEN <<>>
    ELSE Snippet(c, Max2(0, line - contextLines - 1), Min2(Len(c), line + contextLines),
                 line)

\* getSourceContext(consumer, sourcePath, line, contextLines), c being what
\* consumer.sourceContentFor(sourcePath) returns
getSourceContext(c, line, contextLines) ==
    IF NoContent(c) THEN Null
    ELSE LET lines == c
             start == Max2(0, line - contextLines - 1)
             end == Min2(Len(lines), line + contextLines)
         IN  Snippet(lines, start, end, line)

\* contextLines of the CLI's default configuration
CliContextLines == 3

\* config.decoder.contextLines || 10 of the wrapper
WrapperContextLines == 10

\* contextLines = 3, the default parameter of the ink front end's getSourceContent
InkContextLines == 3

(***************************************************************************)
(* Context runs: the window decodeEntry / processEntry builds for an       *)
(* original position, from the embedded content and the radius.            *)
(***************************************************************************)
\* most lines of an enumerated embedded source
MaxSourceLines == 4

\* largest enumerated radius (contextLines)
MaxRadius == 3

\* the texts of the lines of an enumerated embedded source
LineTexts == {"", "x", "y"}

\* the sequences of n elements of S
RECURSIVE SeqsOf(_, _)
SeqsOf(S, n) ==
    IF n = 0 THEN {<<>>} ELSE {Append(s, x) : s \in SeqsOf(S, n - 1), x \in S}

\* the embedded texts sourceContentFor may return: 1..MaxSourceLines lines
Contents == UNION {SeqsOf(LineTexts, n) : n \in 1..MaxSourceLines}

\* what getOriginalPosition may return: null, or a position whose line may lie
\* beyond the embedded text
Positions ==
    {NullObject} \cup
    {[source |-> OriginalSource, line |-> l, column |-> 0, name |-> Null] :
        l \in 1..(MaxSourceLines + 2)}

InitContext ==
    /\ (content = Null \/ content \in Contents)
    /\ position \in Positions
    /\ radius \in 0..MaxRadius
    /\ window = Null
    /\ wrapperWindow = Null
    /\ cPc = "call"
    /\ fileName = <<>>
    /\ baseName = Null
    /\ baseName2 = Null
    /\ nPc = "idle"
    /\ stackTrace = <<>>
    /\ parsed = Null
    /\ pPc = "idle"
    /\ impl = "none"
    /\ ide = Null
    /\ dirExists = FALSE
    /\ dirFiles = <<>>
    /\ input = <<>>
    /\ entries = <<>>
    /\ idx = 0
    /\ dPc = "idle"
    /\ consumer = NullObject
    /\ live = 0
    /\ out = <<>>
    /\ result = NullObject
    /\ debug = FALSE
    /\ resolved = Null
    /\ resolved2 = Null
    /\ rLog = <<>>
    /\ rPc = "idle"
    /\ mode = "once"
    /\ maxFixesPerRun = 1
    /\ dryRun = FALSE
    /\ maxRetries = 1
    /\ db = [h \in Hashes |-> "none"]
    /\ errorsToProcess = <<>>
    /\ errIdx = 0
    /\ oPc = "idle"
    /\ runs = 0
    /\ handed = 0
    /\ procCount = [h \in Hashes |-> 0]
    /\ steps = <<>>
    /\ retries = 0
    /\ attempts = 0
    /\ sleeps = 0
    /\ fixResult = "none"
    /\ navLen = 0
    /\ currentIndex = 0
    /\ prevIndex = 0
    /\ lastKey = "none"
    /\ listening = FALSE
    /\ rawMode = FALSE
    /\ navPc = "idle"
    /\ rendering = 0
    /\ rlLines = <<>>
    /\ emptyLineCount = 0
    /\ inputText = <<>>
    /\ submitted = Null
    /\ slackEnabled = FALSE
    /\ webhook = "unset"
    /\ notifyResult = [isNull |-> TRUE]
    /\ summary = [isNull |-> TRUE]
    /\ stats = [totalErrors |-> 0, totalFixed |-> 0, totalFailed |-> 0, totalSkipped |-> 0]
    /\ records = [FIXED |-> 0, FAILED |-> 0, SKIPPED |-> 0]
    /\ returned = 0
    /\ collected = 0

\* the radius the CLI passes for a configured radius r: config.contextLines
CliRadius(r) == r

\* the radius of a wrapper constructed with a configured radius r:
\* this.contextLines = config.decoder.contextLines || 10
WrapperRadius(r) == IF r = 0 THEN WrapperContextLines ELSE r

\* if (!original) return null; sourceCode = getSourceContext(consumer,
\* original.source, original.line, contextLines), in the CLI and in a
\* wrapper of the same configured radius
BuildContext ==
    /\ cPc = "call"
    /\ window' = IF position = NullObject THEN Null
                 ELSE getSourceContext(content, position.line, CliRadius(radius))
    /\ wrapperWindow' = IF position = NullObject THEN Null
                        ELSE getSourceContext(content, position.line, WrapperRadius(radius))
    /\ cPc' = "returned"
    /\ UNCHANGED <<content, position, radius>>

ContextNext == BuildContext /\ UNCHANGED <<normVars, parseVars, decVars, resVars, orchVars, navVars, rlVars>>

SpecContext == InitContext /\ [][ContextNext]_vars

(***************************************************************************)
(* Decoding runs.  impl says which program runs: "cli" is pipeMode and     *)
(* processEntry of decode-trace.js, "wrapper" is decodeStackTrace and      *)
(* decodeEntry of StackTraceDecoder, "ink" is the stdin 'end' handler of   *)
(* the ink front end.  Processing a frame takes two steps, split where the *)
(* code awaits the construction of the consumer.                           *)
(***************************************************************************)
\* /https?:\/\/[^\s]+\/([^:]+):(\d+):(\d+)/ of the ink front end at position p
MatchInkUrlAt(s, p) ==
    LET a == IF StartsWithAt(s, <<"h", "t", "t", "p", "s", ":", "/", "/">>, p) THEN p + 8
             ELSE IF StartsWithAt(s, <<"h", "t", "t", "p", ":", "/", "/">>, p) THEN p + 7 ELSE -1
    IN  IF a < 0 THEN NoMatch
        ELSE LET sp == FirstOf(s, a, Spaces)
                 lim == IF sp < 0 THEN Len(s) ELSE sp
                 Try(e) == IF CharAt(s, e) # "/" THEN NoMatch
                           ELSE GroupToColon(s, e + 1, FALSE)
                 E == {e \in (a + 1)..(lim - 1) : Try(e).found}
             IN  IF E = {} THEN NoMatch ELSE Try(SetMax(E))

RECURSIVE InkMatchAll(_, _)
InkMatchAll(s, from) ==
    LET P == {p \in from..(Len(s) - 1) : MatchInkUrlAt(s, p).found}
    IN  IF P = {} THEN <<>>
        ELSE LET m == MatchInkUrlAt(s, SetMin(P))
             IN  <<m>> \o InkMatchAll(s, m.end)

RECURSIVE InkConcatFrames(_)
InkConcatFrames(lines) ==
    IF Len(lines) = 0 THEN <<>>
    ELSE LET ln == Head(lines)
             ms == InkMatchAll(ln, 0)
         IN  [i \in 1..Len(ms) |->
                [original |-> Trim(ln), file |-> ms[i].file,
                 line |-> ms[i].line, column |-> ms[i].column]]
             \o InkConcatFrames(Tail(lines))

\* parseStackTrace of the ink front end
inkParseStackTrace(t) == InkConcatFrames(SplitLines(t))

DecodeMapNames == { <<"b", "u", "n", "d", "l", "e", ".", "j", "s", ".", "m", "a", "p">>, <<"a", "p", "p", "-", "C", "2", ".", "j", "s", ".", "m", "a", "p">> }

DecodeTraces == {
    <<"a", "t", " ", "f", "o", "o", " ", "(", "b", "u", "n", "d", "l", "e", ".", "j", "s", ":", "1", "0", ":", "5", ")">>,
    <<"E", "r", "r", "o", "r", ":", " ", "T", "e", "s", "t", " ", "E", "r", "r", "o", "r", "\n", " ", " ", " ", " ", "a", "t", " ", "t", "e", "s", "t", "F", "u", "n", "c", "t", "i", "o", "n", " ", "(", "h", "t", "t", "p", "s", ":", "/", "/", "e", "x", "a", "m", "p", "l", "e", ".", "c", "o", "m", "/", "s", "t", "a", "t", "i", "c", "/", "j", "s", "/", "N", "o", "n", "E", "x", "i", "s", "t", "e", "n", "t", "F", "i", "l", "e", "-", "1", "2", "3", ".", "j", "s", ":", "1", ":", "1", "0", "0", ")">>,
    <<"a", "t", " ", "?", " ", "(", "h", "t", "t", "p", "s", ":", "/", "/", "e", ".", "c", "o", "m", "/", "j", "s", "/", "a", "p", "p", "-", "B", "1", ".", "j", "s", ":", "1", ":", "4", "4", "8", ")", "\n", "a", "t", " ", "f", "o", "o", " ", "(", "b", "u", "n", "d", "l", "e", ".", "j", "s", ":", "0", ":", "7", ")">>,
    <<"h", "t", "t", "p", "s", ":", "/", "/", "e", ".", "c", "o", "m", "/", "j", "s", "/", "b", "u", "n", "d", "l", "e", ".", "j", "s", ":", "1", "0", ":", "5", "\n", "h", "t", "t", "p", "s", ":", "/", "/", "e", ".", "c", "o", "m", "/", "j", "s", "/", "a", "p", "p", "-", "B", "1", ".", "j", "s", ":", "1", ":", "4", "4", "8">>,
    <<"n", "o", " ", "f", "r", "a", "m", "e", "s", " ", "h", "e", "r", "e">> }

\* the frame being processed
Entry == entries[idx]

\* the context radius in use: config.contextLines of the CLI (default 3),
\* the default parameter of the ink front end's getSourceContent, and
\* this.contextLines of the wrapper
ContextLines ==
    CASE impl = "cli" -> CliContextLines
      [] impl = "ink" -> InkContextLines
      [] OTHER -> WrapperContextLines

\* a plausible slip: the newest report is put first
ReportNewestFirst(outcome, original, sourceCode) ==
    <<[frame |-> idx, outcome |-> outcome, original |-> original,
       sourceCode |-> sourceCode]>> \o out

\* what the run reports about the current frame
Report(outcome, original, sourceCode) ==
    Append(out, [frame |-> idx, outcome |-> outcome, original |-> original,
                 sourceCode |-> sourceCode])

\* the value decodeEntry returns for a decoded frame
DecodeResult(entry, original, sourceCode) ==
    [minified |-> [file |-> entry.file, line |-> entry.line, column |-> entry.column],
     original |-> [file |-> original.source, line |-> original.line,
                   column |-> original.column, function |-> original.name],
     sourceCode |-> sourceCode,
     context |->
        IF sourceCode = Null
        THEN [targetLine |-> Undefined, beforeLines |-> Undefined, afterLines |-> Undefined]
        ELSE [targetLine |->
                IF \E i \in 1..Len(sourceCode) : sourceCode[i].isTarget
                THEN sourceCode[CHOOSE i \in 1..Len(sourceCode) : sourceCode[i].isTarget].content
                ELSE Undefined,
              beforeLines |->
                LET b == SelectSeq(sourceCode, LAMBDA l : l.lineNum < original.line)
                IN  [i \in 1..Len(b) |-> b[i].content],
              afterLines |->
                LET a == SelectSeq(sourceCode, LAMBDA l : l.lineNum > original.line)
                IN  [i \in 1..Len(a) |-> a[i].content]]]

\* what decodeEntry returns when findSourceMapFile found nothing
NotFoundResult == NullObject

\* what decodeEntry returns when the position has no original source
NoMappingResult == NullObject

\* what decodeEntry returns from its catch block
CaughtResult == NullObject

\* the frame is finished: the wrapper returns r; the batch loops go on to the
\* next frame, or end
FrameDone(r) ==
    IF impl = "wrapper"
    THEN /\ result' = r
         /\ dPc' = "done"
         /\ idx' = idx
    ELSE /\ result' = result
         /\ IF idx < Len(entries)
            THEN idx' = idx + 1 /\ dPc' = "find"
            ELSE idx' = idx /\ dPc' = "done"

\* the exception leaves the ink handler: the rest of the loop never runs
HandlerRejects ==
    /\ dPc' = "crashed"
    /\ UNCHANGED <<idx, result>>

\* pipeMode / decodeStackTrace / the 'end' handler, up to the first frame
DecodeParse ==
    /\ dPc = "start"
    /\ entries' = IF impl = "ink" THEN inkParseStackTrace(input)
                  ELSE parseStackTrace(input)
    /\ IF Len(entries') = 0
       THEN dPc' = "done" /\ idx' = idx
       ELSE dPc' = "find" /\ idx' = 1
    /\ result' = NullObject
    /\ UNCHANGED <<impl, ide, dirExists, dirFiles, input, consumer, live, out>>

\* the map file the program looks for: the ink front end probes one exact name
MapFileFor(f) ==
    IF impl = "ink"
    THEN IF ExistsIn(dirExists, dirFiles, f \o MapExt) THEN f \o MapExt ELSE Null
    ELSE findSourceMapFile(dirExists, dirFiles, f)

\* processEntry / decodeEntry / the loop body, up to the await in loadSourceMap
FindAndLoad ==
    /\ dPc = "find"
    /\ LET sourceMapPath == MapFileFor(Entry.file)
       IN  IF sourceMapPath = Null
           THEN /\ out' = Report("notfound", NullObject, Null)
                /\ FrameDone(NotFoundResult)
                /\ UNCHANGED <<consumer, live>>
           ELSE IF FileNamed(dirFiles, sourceMapPath).kind = "malformed"
           THEN \* JSON.parse or the consumer's constructor throws
                IF impl = "ink"
                THEN /\ HandlerRejects
                     /\ UNCHANGED <<consumer, live, out>>
                ELSE /\ out' = Report("error", NullObject, Null)
                     /\ FrameDone(CaughtResult)
                     /\ UNCHANGED <<consumer, live>>
           ELSE /\ consumer' = FileNamed(dirFiles, sourceMapPath)
                /\ live' = live + 1
                /\ dPc' = "loaded"
                /\ UNCHANGED <<idx, out, result>>
    /\ UNCHANGED <<impl, ide, dirExists, dirFiles, input, entries>>

\* the rest of processEntry / decodeEntry / the loop body, once the consumer
\* is there: query, render or build the result, destroy
QueryAndRender ==
    /\ dPc = "loaded"
    /\ LET original == getOriginalPosition(consumer.kind, Entry.line, Entry.column)
       IN  IF original = Throws
           THEN \* no destroy on this path
                /\ live' = live
                /\ IF impl = "ink"
                   THEN HandlerRejects /\ out' = out
                   ELSE out' = Report("error", NullObject, Null) /\ FrameDone(CaughtResult)
           ELSE IF original = NullObject
           THEN /\ live' = live - 1
                /\ out' = Report("unmapped", NullObject, Null)
                /\ FrameDone(NoMappingResult)
           ELSE IF impl = "cli" /\ ide = Null
           THEN \* createIDELink: ideType.toLowerCase() throws; no destroy
                /\ live' = live
                /\ out' = Report("error", NullObject, Null)
                /\ FrameDone(CaughtResult)
           ELSE LET sourceCode == getSourceContext(sourceContentFor(consumer.kind), original.line, ContextLines)
                IN  /\ live' = live - 1
                    /\ out' = Report("decoded", original, sourceCode)
                    /\ FrameDone(DecodeResult(Entry, original, sourceCode))
    /\ consumer' = NullObject
    /\ UNCHANGED <<impl, ide, dirExists, dirFiles, input, entries>>

DecodeNext ==
    \/ (DecodeParse /\ UNCHANGED <<normVars, parseVars, resVars, ctxVars, orchVars, navVars, rlVars>>)
    \/ (FindAndLoad /\ UNCHANGED <<normVars, parseVars, resVars, ctxVars, orchVars, navVars, rlVars>>)
    \/ (QueryAndRender /\ UNCHANGED <<normVars, parseVars, resVars, ctxVars, orchVars, navVars, rlVars>>)

InitDecode ==
    /\ impl \in {"cli", "wrapper", "ink"}
    /\ ide \in {"vscode", Null}
    /\ (impl # "cli" => ide = "vscode")
    /\ dirExists \in BOOLEAN
    /\ dirFiles \in DirListings(DecodeMapNames)
    /\ (~dirExists => dirFiles = <<>>)
    /\ input \in DecodeTraces
    /\ entries = <<>>
    /\ idx = 0
    /\ dPc = "start"
    /\ consumer = NullObject
    /\ live = 0
    /\ out = <<>>
    /\ result = NullObject
    /\ debug = FALSE
    /\ resolved = Null
    /\ resolved2 = Null
    /\ rLog = <<>>
    /\ rPc = "idle"
    /\ content = Null
    /\ position = [isNull |-> TRUE]
    /\ radius = 0
    /\ window = Null
    /\ cPc = "idle"
    /\ fileName = <<>>
    /\ baseName = Null
    /\ baseName2 = Null
    /\ nPc = "idle"
    /\ stackTrace = <<>>
    /\ parsed = Null
    /\ pPc = "idle"
    /\ wrapperWindow = Null
    /\ mode = "once"
    /\ maxFixesPerRun = 1
    /\ dryRun = FALSE
    /\ maxRetries = 1
    /\ db = [h \in Hashes |-> "none"]
    /\ errorsToProcess = <<>>
    /\ errIdx = 0
    /\ oPc = "idle"
    /\ runs = 0
    /\ handed = 0
    /\ procCount = [h \in Hashes |-> 0]
    /\ steps = <<>>
    /\ retries = 0
    /\ attempts = 0
    /\ sleeps = 0
    /\ fixResult = "none"
    /\ navLen = 0
    /\ currentIndex = 0
    /\ prevIndex = 0
    /\ lastKey = "none"
    /\ listening = FALSE
    /\ rawMode = FALSE
    /\ navPc = "idle"
    /\ rendering = 0
    /\ rlLines = <<>>
    /\ emptyLineCount = 0
    /\ inputText = <<>>
    /\ submitted = Null
    /\ slackEnabled = FALSE
    /\ webhook = "unset"
    /\ notifyResult = [isNull |-> TRUE]
    /\ summary = [isNull |-> TRUE]
    /\ stats = [totalErrors |-> 0, totalFixed |-> 0, totalFailed |-> 0, totalSkipped |-> 0]
    /\ records = [FIXED |-> 0, FAILED |-> 0, SKIPPED |-> 0]
    /\ returned = 0
    /\ collected = 0

SpecDecode == InitDecode /\ [][DecodeNext]_vars

(***************************************************************************)
(* Claims about the normalizer, checked under SpecNorm.                    *)
(***************************************************************************)
\* what the documentation calls a hash-like suffix: digits only, or two or
\* more of [A-Za-z0-9_] with a digit or with both letter cases
SpecHashLike(h) ==
    \/ (Len(h) >= 1 /\ \A i \in 1..Len(h) : h[i] \in Digits)
    \/ /\ Len(h) >= 2
       /\ \A i \in 1..Len(h) : h[i] \in Lowers \cup Uppers \cup Digits \cup {"_"}
       /\ \/ \E i \in 1..Len(h) : h[i] \in Digits
          \/ /\ \E i \in 1..Len(h) : h[i] \in Uppers
             /\ \E i \in 1..Len(h) : h[i] \in Lowers

\* the text after the last '-' of s
AfterLastDash(s) == SubstringFrom(s, LastIndexOf(s, "-") + 1)

\* the text before the last '-' of s
BeforeLastDash(s) == Substring(s, 0, LastIndexOf(s, "-"))

UseAccessibilityStore ==
    <<"u", "s", "e", "A", "c", "c", "e", "s", "s", "i", "b", "i", "l", "i", "t", "y", "S", "t", "o", "r", "e">>

\* C5 as stated: normalize(normalize(f)) = normalize(f) for every file name f.
C5_IdempotentForAll == nPc = "again" => baseName2 = baseName

\* Where C5 does hold: normalize(normalize(f)) = normalize(f) for every file
\* name f whose normalized name does not itself end in ".js".
C5_IdempotentOnBaseNames ==
    (nPc = "again" /\ ~EndsWith(baseName, JsExt)) => baseName2 = baseName

\* Such a case: a name that lost hash suffixes was normalized a second time.
C5_Witness ==
    /\ nPc = "again"
    /\ ~EndsWith(baseName, JsExt)
    /\ Len(baseName) + 4 <= Len(StripJsExt(fileName))
    /\ baseName2 = baseName

\* C6: for '<stem>-<suffix>.js' whose last '-' is not the first character, the
\* suffix is stripped and normalization continues on '<stem>.js' exactly when
\* the suffix is all digits, or has two or more characters of [A-Za-z0-9_] and
\* a digit or both letter cases; the four quoted names give the quoted results.
C6_StripsExactlyHashLike ==
    (nPc = "returned" /\ EndsWith(fileName, JsExt)) =>
        LET name == StripJsExt(fileName)
        IN  /\ LastIndexOf(name, "-") > 0 =>
                IF SpecHashLike(AfterLastDash(name))
                THEN /\ baseName = extractBaseName(BeforeLastDash(name) \o JsExt)
                     /\ Len(baseName) < Len(name) - Len(AfterLastDash(name))
                ELSE baseName = name
            /\ fileName = UseAccessibilityStore \o <<"-", "Q", "8", "J", "O", "a", "M", "C", "l", ".", "j", "s">>
                => baseName = UseAccessibilityStore
            /\ fileName = <<"i", "n", "d", "e", "x", "-", "9", ".", "j", "s">>
                => baseName = <<"i", "n", "d", "e", "x">>
            /\ fileName = <<"c", "h", "u", "n", "k", "-", "3", "s", ".", "j", "s">>
                => baseName = <<"c", "h", "u", "n", "k">>
            /\ fileName = <<"c", "h", "u", "n", "k", "-", "B", "g", "l", "o", "p", ".", "j", "s">>
                => baseName = <<"c", "h", "u", "n", "k">>

\* C6 witness: 'chunk-3s.js' was normalized to 'chunk'.
C6_Witness ==
    /\ nPc = "returned"
    /\ fileName = <<"c", "h", "u", "n", "k", "-", "3", "s", ".", "j", "s">>
    /\ baseName = <<"c", "h", "u", "n", "k">>

\* C7: a name whose text after the last '-' is all lowercase letters, all
\* uppercase letters or a single non-digit character comes back with only
\* its ".js" removed.
C7_NoEvidenceNoStrip ==
    (nPc = "returned" /\ LastIndexOf(StripJsExt(fileName), "-") >= 0) =>
        LET name == StripJsExt(fileName)
            suffix == AfterLastDash(name)
        IN  ( \/ (Len(suffix) >= 1 /\ \A i \in 1..Len(suffix) : suffix[i] \in Lowers)
              \/ (Len(suffix) >= 1 /\ \A i \in 1..Len(suffix) : suffix[i] \in Uppers)
              \/ (Len(suffix) = 1 /\ suffix[1] \notin Digits) )
            => baseName = name

\* C7 witness: 'foo-ab.js' was normalized to 'foo-ab'.
C7_Witness ==
    /\ nPc = "returned"
    /\ fileName = <<"f", "o", "o", "-", "a", "b", ".", "j", "s">>
    /\ baseName = <<"f", "o", "o", "-", "a", "b">>

\* C8: for an input ending in ".js" the result has no '-' after its first
\* character, or the text after its last '-' is not hash-like; the two quoted
\* stacked names give the quoted results.
C8_StripsAllStacked ==
    (nPc = "returned" /\ EndsWith(fileName, JsExt)) =>
        /\ \/ LastIndexOf(baseName, "-") <= 0
           \/ ~SpecHashLike(AfterLastDash(baseName))
        /\ fileName = UseAccessibilityStore \o <<"-", "K", "b", "W", "r", "k", "Z", "-", "9", ".", "j", "s">>
            => baseName = UseAccessibilityStore
        /\ fileName = <<"m", "y", "-", "c", "o", "m", "p", "o", "n", "e", "n", "t", "-", "a", "1", "b", "2", ".", "j", "s">>
            => baseName = <<"m", "y", "-", "c", "o", "m", "p", "o", "n", "e", "n", "t">>

\* C8 witness: two stacked suffixes were stripped from
\* 'useAccessibilityStore-KbWrkZ-9.js'.
C8_Witness ==
    /\ nPc = "returned"
    /\ fileName = UseAccessibilityStore \o <<"-", "K", "b", "W", "r", "k", "Z", "-", "9", ".", "j", "s">>
    /\ baseName = UseAccessibilityStore

(***************************************************************************)
(* Claims about the parser, checked under SpecParse.                       *)
(***************************************************************************)
\* s[a..b) holds only characters outside C
NoneOf(s, a, b, C) == \A i \in a..(b - 1) : CharAt(s, i) \notin C

\* s[a..b) is one or more digits
DigitsIn(s, a, b) == a < b /\ \A i \in a..(b - 1) : CharAt(s, i) \in Digits

\* some text starting at c reads ':<digits>:<digits>', then ')' when close
SpecPosAt(s, c, close) ==
    /\ c < Len(s)
    /\ CharAt(s, c) = ":"
    /\ \E m \in (c + 2)..(Len(s) - 1) :
        /\ CharAt(s, m) = ":"
        /\ DigitsIn(s, c + 1, m)
        /\ \E e \in (m + 2)..Len(s) :
            /\ DigitsIn(s, m + 1, e)
            /\ close => (e < Len(s) /\ CharAt(s, e) = ")")

\* some part of the line is in the language of the first pattern (URL form)
SpecMatchesUrl(s) ==
    \E p \in 0..(Len(s) - 1) :
        \E a \in {p + 7, p + 8} :
            /\ \/ (a = p + 8 /\ StartsWithAt(s, <<"h", "t", "t", "p", "s", ":", "/", "/">>, p))
               \/ (a = p + 7 /\ StartsWithAt(s, <<"h", "t", "t", "p", ":", "/", "/">>, p))
            /\ \E o \in (a + 1)..(Len(s) - 1) :
                /\ CharAt(s, o) = "/"
                /\ NoneOf(s, a, o, Spaces)
                /\ \E c \in (o + 5)..(Len(s) - 1) :
                    /\ NoneOf(s, o + 1, c, {"/", ":"})
                    /\ Substring(s, c - 3, c) = JsExt
                    /\ SpecPosAt(s, c, FALSE)

\* some part of the line is in the language of the second pattern
SpecMatchesAtParen(s) ==
    \E p \in 0..(Len(s) - 1) :
        /\ StartsWithAt(s, <<"a", "t", " ">>, p)
        /\ \E o \in (p + 4)..(Len(s) - 1) :
            /\ StartsWithAt(s, <<" ", "(">>, o)
            /\ NoneOf(s, p + 3, o, {"\n", "\r"})
            /\ \E c \in (o + 3)..(Len(s) - 1) :
                /\ NoneOf(s, o + 2, c, {":"})
                /\ SpecPosAt(s, c, TRUE)

\* some part of the line is in the language of the third pattern
SpecMatchesAtBare(s) ==
    \E p \in 0..(Len(s) - 1) :
        /\ StartsWithAt(s, <<"a", "t", " ">>, p)
        /\ \E c \in (p + 4)..(Len(s) - 1) :
            /\ NoneOf(s, p + 3, c, {":"})
            /\ SpecPosAt(s, c, FALSE)

SpecLineMatches(s) ==
    SpecMatchesUrl(s) \/ SpecMatchesAtParen(s) \/ SpecMatchesAtBare(s)

BundleJs == <<"b", "u", "n", "d", "l", "e", ".", "j", "s">>

\* C9 as stated: a line 'at <symbol> (<file>.js:<line>:<col>)', such as
\* 'at foo (bundle.js:10:5)', yields exactly one frame, with that file, line
\* and column.
C9_ExactlyOneFrame ==
    (pPc = "returned" /\ stackTrace = <<"a", "t", " ", "f", "o", "o", " ", "(", "b", "u", "n", "d", "l", "e", ".", "j", "s", ":", "1", "0", ":", "5", ")">>) =>
        /\ Len(parsed) = 1
        /\ parsed[1].file = BundleJs
        /\ parsed[1].line = 10
        /\ parsed[1].column = 5

\* C10: the empty string, 'no frames here' and every text none of whose
\* lines is in the language of a pattern parse to the empty sequence, and
\* every frame comes from a line that is in the language of a pattern.
C10_NoMatchNoFrame ==
    pPc = "returned" =>
        LET lines == SplitLines(stackTrace)
        IN  /\ stackTrace = <<>> => parsed = <<>>
            /\ stackTrace = <<"n", "o", " ", "f", "r", "a", "m", "e", "s", " ", "h", "e", "r", "e">> => parsed = <<>>
            /\ (\A j \in 1..Len(lines) : ~SpecLineMatches(lines[j])) => parsed = <<>>
            /\ \A i \in 1..Len(parsed) :
                \E j \in 1..Len(lines) :
                    /\ SpecLineMatches(lines[j])
                    /\ parsed[i].original = Trim(lines[j])

\* C10 witness: two lines, neither a frame ('at bundle.js:10' lacks its
\* column), were parsed to the empty sequence.
C10_Witness ==
    /\ pPc = "returned"
    /\ stackTrace = <<"n", "o", " ", "f", "r", "a", "m", "e", "s", " ", "h", "e", "r", "e", "\n", "a", "t", " ", "b", "u", "n", "d", "l", "e", ".", "j", "s", ":", "1", "0">>
    /\ parsed = <<>>

(***************************************************************************)
(* Claims about decoding, checked under SpecDecode.                        *)
(***************************************************************************)
\* C1 as stated: in processEntry and decodeEntry every consumer that was
\* opened is destroyed before the processing of its frame ends, on every exit
\* path: whenever no frame is in work, no consumer is left undestroyed.
C1_ConsumerDestroyed ==
    (impl \in {"cli", "wrapper"} /\ dPc \in {"find", "done"}) => live = 0

\* C2 as stated: when no exact or fuzzy map exists for the file of the first
\* frame, decodeStackTrace returns an object whose error is
\* SOURCE_MAP_NOT_FOUND and which carries the searched directory.
C2_TypedNotFound ==
    ( /\ impl = "wrapper"
      /\ dPc = "done"
      /\ Len(entries) >= 1
      /\ findSourceMapFile(dirExists, dirFiles, entries[1].file) = Null )
    => /\ result # NullObject
       /\ result.error = "SOURCE_MAP_NOT_FOUND"
       /\ result.searchPath = SourceMapDir

\* C3 as stated: what decodeEntry returns for a frame whose map was found but
\* whose position has no original source differs from what it returns when no
\* map was found.
C3_NoMappingDistinct ==
    ( /\ impl = "wrapper"
      /\ dPc = "done"
      /\ Len(out) = 1
      /\ out[1].outcome = "unmapped" )
    => result # NotFoundResult

\* C4 as stated: in a batch a frame that fails (no map, a map that does not
\* load, an unmapped position) never aborts the batch: once the run is over
\* every parsed frame has been processed.
C4_BatchNeverAborts ==
    ( /\ impl \in {"cli", "ink"}
      /\ dPc \in {"done", "crashed"}
      /\ \A i \in 1..Len(entries) : entries[i].line >= 1 )
    => Len(out) = Len(entries)

(***************************************************************************)
(* Claims about the frames of the parser, checked under SpecParse.         *)
(***************************************************************************)
\* C11 as stated: every frame parseStackTrace returns has a file without '/',
\* a line of at least 1 and a column of at least 0.
C11_FramesWellFormed ==
    pPc = "returned" =>
        \A i \in 1..Len(parsed) :
            /\ IndexOf(parsed[i].file, "/") < 0
            /\ parsed[i].line >= 1
            /\ parsed[i].column >= 0

\* where in its line the reference of match m of pattern k ends: after the
\* digits of the column (the second pattern also consumes the ')')
RefEnd(k, m) == IF k = 2 THEN m.end - 1 ELSE m.end

\* line number and end of the reference of every frame, in the order in which
\* parseStackTrace pushes the frames
RefPositions(lines) ==
    LET F(n, k) == LET ms == MatchAll(k, lines[n], 0)
                   IN  [i \in 1..Len(ms) |-> [ln |-> n, at |-> RefEnd(k, ms[i])]]
        RECURSIVE G(_)
        G(n) == IF n > Len(lines) THEN <<>>
                ELSE F(n, 1) \o F(n, 2) \o F(n, 3) \o G(n + 1)
    IN  G(1)

\* reference a occurs earlier in the text than reference b
OccursEarlier(a, b) == a.ln < b.ln \/ (a.ln = b.ln /\ a.at < b.at)

\* C12 as stated: the frames come in document order, across lines and within
\* a line: no frame is preceded by a frame whose reference occurs later.
C12_DocumentOrder ==
    pPc = "returned" =>
        LET pos == RefPositions(SplitLines(stackTrace))
        IN  /\ Len(pos) = Len(parsed)
            /\ \A i, j \in 1..Len(pos) : i < j => ~OccursEarlier(pos[j], pos[i])

(***************************************************************************)
(* Claims about the resolver, checked under SpecResolve.                   *)
(***************************************************************************)
\* C13: if the directory holds '<fileName>.map', findSourceMapFile returns it,
\* whatever fuzzy candidates exist and whatever their modification times, and
\* no directory scan is made.
C13_ExactPreferred ==
    (rPc = "returned" /\ ExistsIn(dirExists, dirFiles, fileName \o MapExt)) =>
        /\ fileName \o MapExt = resolved
        /\ \A i \in 1..Len(rLog) : rLog[i].msg # "scanning"

\* C13 witness: 'app-B1.js.map' was returned for 'app-B1.js' although the
\* fuzzy candidate 'app-C2.js.map' is newer.
C13_Witness ==
    /\ rPc = "returned"
    /\ fileName = <<"a", "p", "p", "-", "B", "1", ".", "j", "s">>
    /\ <<"a", "p", "p", "-", "B", "1", ".", "j", "s", ".", "m", "a", "p">> = resolved
    /\ \E i, j \in 1..Len(dirFiles) :
        /\ dirFiles[i].name = <<"a", "p", "p", "-", "B", "1", ".", "j", "s", ".", "m", "a", "p">>
        /\ dirFiles[j].name = <<"a", "p", "p", "-", "C", "2", ".", "j", "s", ".", "m", "a", "p">>
        /\ dirFiles[j].mtime > dirFiles[i].mtime

\* neither exact probe finds a file
NoExactCandidate ==
    /\ ~ExistsIn(dirExists, dirFiles, fileName \o MapExt)
    /\ ~ExistsIn(dirExists, dirFiles, ReplaceFirst(fileName, JsExt, JsMapExt))

\* the listed files that end in '.js.map' and whose name, with that ending
\* replaced by '.js', normalizes to what fileName normalizes to
SpecCandidates ==
    {i \in 1..Len(dirFiles) :
        /\ EndsWith(dirFiles[i].name, JsMapExt)
        /\ extractBaseName(Substring(dirFiles[i].name, 0, Len(dirFiles[i].name) - 4))
            = extractBaseName(fileName)}

\* C14: with no exact candidate in an existing directory, findSourceMapFile
\* returns a candidate of the latest modification time among all candidates,
\* and not-found exactly when there is no candidate.
C14_NewestFuzzyMatch ==
    (rPc = "returned" /\ dirExists /\ NoExactCandidate) =>
        IF SpecCandidates = {} THEN resolved = Null
        ELSE \E i \in SpecCandidates :
                /\ dirFiles[i].name = resolved
                /\ \A j \in SpecCandidates : dirFiles[j].mtime <= dirFiles[i].mtime

\* C14 witness: of two candidates for 'app.js' the later listed, newer one was
\* returned.
C14_Witness ==
    /\ rPc = "returned"
    /\ fileName = <<"a", "p", "p", ".", "j", "s">>
    /\ Len(dirFiles) = 2
    /\ dirFiles[1].name = <<"a", "p", "p", "-", "B", "1", ".", "j", "s", ".", "m", "a", "p">>
    /\ dirFiles[2].name = <<"a", "p", "p", "-", "C", "2", ".", "j", "s", ".", "m", "a", "p">>
    /\ dirFiles[2].mtime > dirFiles[1].mtime
    /\ <<"a", "p", "p", "-", "C", "2", ".", "j", "s", ".", "m", "a", "p">> = resolved

C16_MissingDirDistinguished ==
    (rPc = "returned" /\ ~dirExists) =>
        /\ resolved = Null
        /\ <<resolved, rLog>> #
            <<findSourceMapFile(TRUE, <<>>, fileName),
              findSourceMapFileLog(impl, debug, TRUE, <<>>, fileName)>>

(***************************************************************************)
(* Claims about the context window, checked under SpecContext.             *)
(***************************************************************************)
\* a position was mapped and the source has embedded text
HasWindow ==
    /\ cPc = "returned"
    /\ position # NullObject
    /\ content # Null
    /\ content # <<"">>

\* C17: for N lines of embedded content, target line L and radius K the
\* window holds exactly the lines max(1, L-K) .. min(N, L+K), ascending, each
\* with its content, and so at most 2K+1 entries.
C17_WindowLines ==
    HasWindow =>
        LET N == Len(content)
            L == position.line
            K == radius
            lo == IF L - K > 1 THEN L - K ELSE 1
            hi == IF L + K < N THEN L + K ELSE N
        IN  /\ Len(window) = (IF hi >= lo THEN hi - lo + 1 ELSE 0)
            /\ \A i \in 1..Len(window) :
                /\ window[i].lineNum = lo + i - 1
                /\ window[i].content = content[lo + i - 1]
            /\ Len(window) <= 2 * K + 1

\* C17 witness: a window cut at both ends of a four-line source.
C17_Witness ==
    /\ HasWindow
    /\ Len(content) = 4
    /\ position.line = 2
    /\ radius = 3
    /\ Len(window) = 4
    /\ window[1].lineNum = 1
    /\ window[4].lineNum = 4

\* C18: the window holds exactly one entry with isTarget, and its line number
\* is the original line, when that line is within 1..lineCount, for every
\* radius; for a null position there is no window and so no such entry.
C18_OneTarget ==
    /\ HasWindow /\ position.line \in 1..Len(content) =>
        /\ Cardinality({i \in 1..Len(window) : window[i].isTarget}) = 1
        /\ \A i \in 1..Len(window) :
            window[i].isTarget <=> window[i].lineNum = position.line
    /\ cPc = "returned" /\ position = NullObject => window = Null

\* C18 witness: radius 0 on the last line gives the target line alone.
C18_Witness ==
    /\ HasWindow
    /\ radius = 0
    /\ position.line = Len(content)
    /\ Len(window) = 1
    /\ window[1].isTarget
    /\ window[1].lineNum = position.line

(***************************************************************************)
(* Claims about results and order of decoding, checked under SpecDecode.   *)
(***************************************************************************)
\* C19: when the position of the first frame is mapped but the map embeds no
\* content for the original source, decodeStackTrace returns a result with
\* the original file, line and column and a null context window; the frame
\* counts as decoded.
C19_MissingContentStillDecoded ==
    ( /\ impl = "wrapper"
      /\ dPc = "done"
      /\ Len(entries) >= 1
      /\ entries[1].line >= 1
      /\ LET p == findSourceMapFile(dirExists, dirFiles, entries[1].file)
         IN  p # Null /\ FileNamed(dirFiles, p).kind = "nocontent" )
    => LET pos == OriginalPositionFor("nocontent", entries[1].line, entries[1].column)
       IN  /\ out[1].outcome = "decoded"
           /\ result # NullObject
           /\ result.original.file = pos.source
           /\ result.original.line = pos.line
           /\ result.original.column = pos.column
           /\ result.sourceCode = Null

\* C19 witness: the wrapper returned the position (53, 24) of the sample map
\* with a null window.
C19_Witness ==
    /\ impl = "wrapper"
    /\ dPc = "done"
    /\ Len(out) = 1
    /\ out[1].outcome = "decoded"
    /\ result.original.line = 53
    /\ result.original.column = 24
    /\ result.sourceCode = Null

\* C20: pipeMode processes the frames in parse order, one at a time: the
\* reports are those of frames 1, 2, ... in this order, the frame in work is
\* the one after the last reported, and at the end every frame is reported.
C20_FramesInOrder ==
    impl = "cli" =>
        /\ \A i \in 1..Len(out) : out[i].frame = i
        /\ dPc \in {"find", "loaded"} => idx = Len(out) + 1
        /\ dPc = "done" => Len(out) = Len(entries)

\* C20 witness: a batch of three frames is over, reported in order.
C20_Witness ==
    /\ impl = "cli"
    /\ dPc = "done"
    /\ Len(entries) = 3
    /\ Len(out) = 3
    /\ out[1].frame = 1
    /\ out[3].frame = 3

(***************************************************************************)
(* End to end: fuzzy resolution followed by the position query.            *)
(***************************************************************************)
\* the first frame has no exact map, and the directory holds maps whose
\* hash-stripped base name is that of the frame's file
FirstFrameFuzzy ==
    /\ Len(entries) >= 1
    /\ ~ExistsIn(dirExists, dirFiles, entries[1].file \o MapExt)
    /\ ~ExistsIn(dirExists, dirFiles, ReplaceFirst(entries[1].file, JsExt, JsMapExt))
    /\ dirExists
    /\ Len(FuzzyMatches(dirFiles, entries[1].file)) > 0

\* C21: when the file of the first frame has no exact map but the directory
\* holds a map of the same hash-stripped base name, decodeStackTrace returns
\* the original position the consumer of the newest such map reports for the
\* frame's line and column.
C21_FuzzyEndToEnd ==
    ( /\ impl = "wrapper"
      /\ dPc = "done"
      /\ FirstFrameFuzzy
      /\ entries[1].line >= 1
      /\ NewestFirst(FuzzyMatches(dirFiles, entries[1].file)).kind \in {"mapped", "nocontent"} )
    => LET m == NewestFirst(FuzzyMatches(dirFiles, entries[1].file))
           pos == OriginalPositionFor(m.kind, entries[1].line, entries[1].column)
       IN  /\ result # NullObject
           /\ result.original.file = pos.source
           /\ result.original.line = pos.line
           /\ result.original.column = pos.column
           /\ result.original.function = pos.name

\* C21 witness: 'app-B1.js:1:448' was decoded against 'app-C2.js.map', which
\* sends (1, 448) to (53, 24), and the result has line 53.
C21_Witness ==
    /\ impl = "wrapper"
    /\ dPc = "done"
    /\ FirstFrameFuzzy
    /\ entries[1].file = <<"a", "p", "p", "-", "B", "1", ".", "j", "s">>
    /\ entries[1].line = 1
    /\ entries[1].column = 448
    /\ result # NullObject
    /\ result.original.line = 53
    /\ result.original.column = 24

(***************************************************************************)
(* The orchestrator: AutoFixOrchestrator.runOnce and processError, the     *)
(* processed-errors DB, ClaudeCodeClient.fixError and GitUtils.            *)
(***************************************************************************)
\* most errors one collection returns
MaxErrors == 2
\* most runs of runOnce
MaxRuns == 2
\* largest configured limits.maxFixesPerRun
MaxFixes == 2
\* largest configured claudeCode.maxRetries
MaxRetriesCfg == 2

\* parseInt(process.env.MAX_FIXES_PER_RUN) || 10: any integer but 0; the
\* values that matter for collections of at most MaxErrors errors
FixLimits == {-1} \cup 1..MaxFixes

\* parseInt(process.env.CLAUDE_CODE_MAX_RETRIES) || 3, then maxRetries || 3: any
\* integer but 0
RetryLimits == {-1} \cup 1..MaxRetriesCfg

\* what collectErrors may return: one error per log line, equal lines giving
\* equal hashes
Collections == UNION {SeqsOf(Hashes, n) : n \in 0..MaxErrors}

\* decoder.decodeStackTrace on the trace of the error of hash h; each hash
\* stands for one error, message and trace: h1 decodes with a context
\* window, h2 decodes against a map that embeds no source content
\* (sourceCode null), h3 does not decode (null).
decodeStackTrace(h) ==
    CASE h = "h1" -> [isNull |-> FALSE, sourceCode |-> "window"]
      [] h = "h2" -> [isNull |-> FALSE, sourceCode |-> Null]
      [] OTHER -> NullObject

\* isProcessed(errorHash): this.errors[errorHash] !== undefined
isProcessed(d, h) == d[h] # "none"

\* filterUnprocessed(errors): errors.filter(e => !this.isProcessed(e.hash))
filterUnprocessed(d, errors) == SelectSeq(errors, LAMBDA h : ~isProcessed(d, h))

\* markAsProcessed(errorHash, status, metadata)
markAsProcessed(d, h, status) == [d EXCEPT ![h] = status]

\* Array.prototype.slice(0, end): a negative end counts from the end
Slice0(s, end) ==
    LET e == IF end < 0 THEN Max2(Len(s) + end, 0) ELSE Min2(end, Len(s))
    IN  SubSeq(s, 1, e)

\* maxFixes = this.mode === 'once' ? 1 : this.config.limits.maxFixesPerRun
MaxFixesFor(m, limit) == IF m = "once" THEN 1 ELSE limit

\* the error processError is working on
CurrentHash == errorsToProcess[errIdx]

\* the for loop of runOnce after processError returned: the next error, or
\* the statistics and the notification
LoopOn ==
    IF errIdx < Len(errorsToProcess)
    THEN errIdx' = errIdx + 1 /\ oPc' = "process"
    ELSE errIdx' = errIdx /\ oPc' = "notify"

\* an exception leaves processError: the catch block of runOnce takes over
RunCatches ==
    /\ errIdx' = errIdx
    /\ oPc' = "caught"

\* this.stats of a new orchestrator (totalRuns is the variable runs)
NewStats == [totalErrors |-> 0, totalFixed |-> 0, totalFailed |-> 0, totalSkipped |-> 0]

\* no record written yet
NoRecords == [FIXED |-> 0, FAILED |-> 0, SKIPPED |-> 0]

\* a plausible slip: a failed fix is counted as skipped
CounterForFailedAsSkipped(status) ==
    IF status = "FIXED" THEN "totalFixed" ELSE "totalSkipped"

\* the counter processError increments next to markAsProcessed(hash, status)
CounterFor(status) ==
    CASE status = "FIXED" -> "totalFixed"
      [] status = "FAILED" -> "totalFailed"
      [] OTHER -> "totalSkipped"

\* the kind of a record: FIXED, FAILED, or a skip reason
RecordKind(status) == IF status \in {"FIXED", "FAILED"} THEN status ELSE "SKIPPED"

\* processError writes its record, increments its counter and returns
Returns(status) ==
    /\ db' = markAsProcessed(db, CurrentHash, status)
    /\ stats' = [stats EXCEPT ![CounterFor(status)] = @ + 1]
    /\ records' = [records EXCEPT ![RecordKind(status)] = @ + 1]
    /\ returned' = returned + 1

\* runOnce up to the first call of processError: collect, filter, cut
StartRun ==
    /\ oPc = "ready"
    /\ runs < MaxRuns
    /\ \E errors \in Collections :
        LET newErrors == filterUnprocessed(db, errors)
            maxFixes == MaxFixesFor(mode, maxFixesPerRun)
            \* in 'once' mode every run is a new process, with new statistics
            before == IF mode = "once" THEN NewStats ELSE stats
        IN  /\ errorsToProcess' = Slice0(newErrors, maxFixes)
            /\ IF Len(errorsToProcess') = 0
               THEN errIdx' = 0 /\ oPc' = "ready"
               ELSE errIdx' = 1 /\ oPc' = "process"
            /\ collected' = Len(errors)
            /\ stats' = [before EXCEPT !.totalErrors = @ + Len(errors)]
    /\ records' = IF mode = "once" THEN NoRecords ELSE records
    /\ returned' = IF mode = "once" THEN 0 ELSE returned
    /\ runs' = runs + 1
    /\ handed' = 0
    /\ steps' = <<>>
    /\ summary' = NullObject
    /\ notifyResult' = NullObject
    /\ UNCHANGED <<mode, maxFixesPerRun, dryRun, maxRetries, db, procCount,
                   retries, attempts, sleeps, fixResult, slackEnabled, webhook>>

\* processError up to the first await of fixError: decode; skip and record,
\* or call fixError, whose generatePrompt reads sourceCode.map
ProcessError ==
    /\ oPc = "process"
    /\ handed' = handed + 1
    /\ procCount' = [procCount EXCEPT ![CurrentHash] = @ + 1]
    /\ retries' = 0
    /\ attempts' = 0
    /\ sleeps' = 0
    /\ LET decoded == decodeStackTrace(CurrentHash)
       IN  IF decoded = NullObject
           THEN /\ Returns("UNKNOWN_ERROR")
                /\ steps' = <<"decode", "record UNKNOWN_ERROR">>
                /\ fixResult' = "none"
                /\ LoopOn
           ELSE IF decoded.sourceCode = Null
           THEN \* TypeError in generatePrompt, before the retry loop
                /\ UNCHANGED <<db, stats, records, returned>>
                /\ steps' = <<"decode", "fixError">>
                /\ fixResult' = "threw"
                /\ RunCatches
           ELSE IF 0 < maxRetries
           THEN /\ UNCHANGED <<db, stats, records, returned>>
                /\ steps' = <<"decode", "fixError">>
                /\ fixResult' = "none"
                /\ errIdx' = errIdx
                /\ oPc' = "attempt"
           ELSE \* the loop body never runs
                /\ UNCHANGED <<db, stats, records, returned>>
                /\ steps' = <<"decode", "fixError">>
                /\ fixResult' = "failed"
                /\ errIdx' = errIdx
                /\ oPc' = "afterFix"
    /\ UNCHANGED <<mode, maxFixesPerRun, dryRun, maxRetries, errorsToProcess, runs,
                   slackEnabled, webhook, notifyResult, summary, collected>>

\* if (retries < this.maxRetries) await this.sleep(5000), after r failures
SleepsAfter(r, limit) == r < limit

\* while (retries < this.maxRetries)
LoopsOn(r, limit) == r < limit

\* one turn of the retry loop of fixError: runClaudeCode resolves or rejects
Attempt ==
    /\ oPc = "attempt"
    /\ attempts' = attempts + 1
    /\ \E ok \in BOOLEAN :
        IF ok
        THEN /\ fixResult' = "ok"
             /\ oPc' = "afterFix"
             /\ UNCHANGED <<retries, sleeps>>
        ELSE /\ retries' = retries + 1
             /\ sleeps' = IF SleepsAfter(retries', maxRetries) THEN sleeps + 1 ELSE sleeps
             /\ IF LoopsOn(retries', maxRetries)
                THEN fixResult' = fixResult /\ oPc' = "attempt"
                ELSE fixResult' = "failed" /\ oPc' = "afterFix"
    /\ UNCHANGED <<mode, maxFixesPerRun, dryRun, maxRetries, db, errorsToProcess,
                   errIdx, runs, handed, procCount, steps, slackEnabled, webhook,
                   notifyResult, summary, stats, records, returned, collected>>

\* a plausible slip: the record is written before the commit
AfterFixRecordsFirst(ok) ==
    IF ok THEN <<"record FIXED", "commitChanges">> ELSE <<"record FAILED">>

\* what processError does once fixError has returned: record FAILED, or
\* await commitChanges and record FIXED
AfterFix(ok) ==
    IF ok THEN <<"commitChanges", "record FIXED">> ELSE <<"record FAILED">>

\* the rest of processError, and the loop of runOnce
FixReturned ==
    /\ oPc = "afterFix"
    /\ steps' = steps \o AfterFix(fixResult = "ok")
    /\ Returns(IF fixResult = "ok" THEN "FIXED" ELSE "FAILED")
    /\ LoopOn
    /\ UNCHANGED <<mode, maxFixesPerRun, dryRun, maxRetries, errorsToProcess, runs,
                   handed, procCount, retries, attempts, sleeps, fixResult,
                   slackEnabled, webhook, notifyResult, summary, collected>>

\* what the webhook request may end in: status 200, another status, or a
\* transport error
NetOutcomes == {"200", "non200", "error"}

\* the webhook URL of the configuration: empty, an unreplaced '${...}'
\* placeholder, a text new URL() rejects, or a URL
Webhooks == {"unset", "placeholder", "invalid", "valid"}

\* a plausible slip: the promise of the request is awaited inside the try
\* block, so that its rejection is caught
sendNotificationAwaited(enabled, hook, net) ==
    IF ~enabled
    THEN [settled |-> "resolved", success |-> FALSE, reason |-> "disabled"]
    ELSE IF hook \in {"unset", "placeholder"}
    THEN [settled |-> "resolved", success |-> FALSE, reason |-> "no_webhook"]
    ELSE IF hook = "invalid"
    THEN [settled |-> "resolved", success |-> FALSE, reason |-> "error"]
    ELSE IF net = "200"
    THEN [settled |-> "resolved", success |-> TRUE, reason |-> "none"]
    ELSE [settled |-> "resolved", success |-> FALSE, reason |-> "error"]

\* what the promise of sendNotification settles to. The promise of the
\* request is returned from the try block without await, so its rejection
\* passes the catch block, which sees the exceptions of new URL() only.
sendNotification(enabled, hook, net) ==
    IF ~enabled
    THEN [settled |-> "resolved", success |-> FALSE, reason |-> "disabled"]
    ELSE IF hook \in {"unset", "placeholder"}
    THEN [settled |-> "resolved", success |-> FALSE, reason |-> "no_webhook"]
    ELSE IF hook = "invalid"
    THEN [settled |-> "resolved", success |-> FALSE, reason |-> "error"]
    ELSE IF net = "200"
    THEN [settled |-> "resolved", success |-> TRUE, reason |-> "none"]
    ELSE [settled |-> "rejected", success |-> FALSE, reason |-> net]

\* the summary runOnce hands to sendNotification
Summary(total, failedRun) ==
    [fixed |-> stats.totalFixed, failed |-> stats.totalFailed,
     skipped |-> stats.totalSkipped, total |-> total, error |-> failedRun]

\* the end of the try block of runOnce: printStats and the notification,
\* whose rejection the catch block takes
Notify ==
    /\ oPc = "notify"
    /\ summary' = Summary(collected, FALSE)
    /\ \E net \in NetOutcomes :
        notifyResult' = sendNotification(slackEnabled, webhook, net)
    /\ oPc' = IF notifyResult'.settled = "rejected" THEN "caught" ELSE "ready"
    /\ UNCHANGED <<mode, maxFixesPerRun, dryRun, maxRetries, db, errorsToProcess,
                   errIdx, runs, handed, procCount, steps, retries, attempts,
                   sleeps, fixResult, slackEnabled, webhook, stats, records,
                   returned, collected>>

\* the catch block of runOnce: a notification with the error; its rejection
\* leaves runOnce, and runContinuously and main with it
CatchNotify ==
    /\ oPc = "caught"
    /\ summary' = Summary(stats.totalErrors, TRUE)
    /\ \E net \in NetOutcomes :
        notifyResult' = sendNotification(slackEnabled, webhook, net)
    /\ oPc' = IF notifyResult'.settled = "rejected" THEN "rejected" ELSE "ready"
    /\ UNCHANGED <<mode, maxFixesPerRun, dryRun, maxRetries, db, errorsToProcess,
                   errIdx, runs, handed, procCount, steps, retries, attempts,
                   sleeps, fixResult, slackEnabled, webhook, stats, records,
                   returned, collected>>

OrchNext ==
    \/ (StartRun /\ UNCHANGED <<normVars, parseVars, decVars, resVars, ctxVars, navVars, rlVars>>)
    \/ (ProcessError /\ UNCHANGED <<normVars, parseVars, decVars, resVars, ctxVars, navVars, rlVars>>)
    \/ (Attempt /\ UNCHANGED <<normVars, parseVars, decVars, resVars, ctxVars, navVars, rlVars>>)
    \/ (FixReturned /\ UNCHANGED <<normVars, parseVars, decVars, resVars, ctxVars, navVars, rlVars>>)
    \/ (Notify /\ UNCHANGED <<normVars, parseVars, decVars, resVars, ctxVars, navVars, rlVars>>)
    \/ (CatchNotify /\ UNCHANGED <<normVars, parseVars, decVars, resVars, ctxVars, navVars, rlVars>>)

InitOrch ==
    /\ mode \in {"once", "continuous"}
    /\ maxFixesPerRun \in FixLimits
    /\ dryRun \in BOOLEAN
    /\ maxRetries \in RetryLimits
    /\ slackEnabled \in BOOLEAN
    /\ webhook \in Webhooks
    /\ (~slackEnabled => webhook = "unset")
    /\ notifyResult = [isNull |-> TRUE]
    /\ summary = [isNull |-> TRUE]
    /\ stats = [totalErrors |-> 0, totalFixed |-> 0, totalFailed |-> 0, totalSkipped |-> 0]
    /\ records = [FIXED |-> 0, FAILED |-> 0, SKIPPED |-> 0]
    /\ returned = 0
    /\ collected = 0
    /\ db = [h \in Hashes |-> "none"]
    /\ errorsToProcess = <<>>
    /\ errIdx = 0
    /\ oPc = "ready"
    /\ runs = 0
    /\ handed = 0
    /\ procCount = [h \in Hashes |-> 0]
    /\ steps = <<>>
    /\ retries = 0
    /\ attempts = 0
    /\ sleeps = 0
    /\ fixResult = "none"
    /\ fileName = <<>>
    /\ baseName = Null
    /\ baseName2 = Null
    /\ nPc = "idle"
    /\ stackTrace = <<>>
    /\ parsed = Null
    /\ pPc = "idle"
    /\ impl = "none"
    /\ ide = Null
    /\ dirExists = FALSE
    /\ dirFiles = <<>>
    /\ input = <<>>
    /\ entries = <<>>
    /\ idx = 0
    /\ dPc = "idle"
    /\ consumer = NullObject
    /\ live = 0
    /\ out = <<>>
    /\ result = NullObject
    /\ debug = FALSE
    /\ resolved = Null
    /\ resolved2 = Null
    /\ rLog = <<>>
    /\ rPc = "idle"
    /\ content = Null
    /\ position = [isNull |-> TRUE]
    /\ radius = 0
    /\ window = Null
    /\ wrapperWindow = Null
    /\ cPc = "idle"
    /\ navLen = 0
    /\ currentIndex = 0
    /\ prevIndex = 0
    /\ lastKey = "none"
    /\ listening = FALSE
    /\ rawMode = FALSE
    /\ navPc = "idle"
    /\ rendering = 0
    /\ rlLines = <<>>
    /\ emptyLineCount = 0
    /\ inputText = <<>>
    /\ submitted = Null

SpecOrch == InitOrch /\ [][OrchNext]_vars

(***************************************************************************)
(* Claims about the orchestrator, checked under SpecOrch.                  *)
(***************************************************************************)
\* C22: duplicate errors are never processed twice: over any sequence of
\* runs, with no cleanup or reset of the DB, processError is invoked at most
\* once per error hash, also when one collection holds several errors of the
\* same hash.
C22_AtMostOncePerHash ==
    \A h \in Hashes : procCount[h] <= 1

\* C23: in each run at most 1 error is handed to processError in 'once'
\* mode, and at most limits.maxFixesPerRun in any other mode (none for a
\* limit below 1), whatever the number of new errors collected.
C23_BoundedPerRun ==
    handed <= (IF mode = "once" THEN 1 ELSE Max2(maxFixesPerRun, 0))

\* with a positive configured limit the bound of C23 holds
C23_BoundedForPositiveLimit ==
    maxFixesPerRun >= 1 => handed <= (IF mode = "once" THEN 1 ELSE maxFixesPerRun)

\* the call, or the record, is among the steps taken for the error in work
Took(step) == \E k \in 1..Len(steps) : steps[k] = step

\* C24: in dry-run mode no fix is requested and nothing is committed:
\* neither fixError (nor runClaudeCode within it) nor commitChanges is
\* invoked in any run.
C24_DryRunDoesNothing ==
    dryRun => /\ ~Took("fixError")
              /\ ~Took("commitChanges")
              /\ attempts = 0

\* the call of fixError in work is over: it returned or it threw
FixErrorOver == fixResult \in {"ok", "failed", "threw"}

\* C25: every call of fixError makes at least one and at most maxRetries
\* attempts; it returns success at the first attempt that succeeds, returns
\* failure only after maxRetries failed attempts, and sleeps between
\* attempts but not after the last one.
C25_Attempts ==
    FixErrorOver =>
        /\ attempts >= 1
        /\ attempts <= maxRetries
        /\ fixResult # "threw"
        /\ fixResult = "ok" => attempts = retries + 1
        /\ fixResult = "failed" => (attempts = maxRetries /\ retries = maxRetries)
        /\ sleeps = attempts - 1

\* once the prompt is built, and with a positive maxRetries, the retry loop
\* behaves as C25 says
C25_RetryLoop ==
    (fixResult \in {"ok", "failed"} /\ maxRetries >= 1) =>
        /\ attempts >= 1
        /\ attempts <= maxRetries
        /\ fixResult = "ok" => attempts = retries + 1
        /\ fixResult = "failed" => (attempts = maxRetries /\ retries = maxRetries)
        /\ sleeps = attempts - 1

\* C26: for each error the order is decode, fix request, commit, FIXED
\* record: commitChanges is invoked only after fixError returned success,
\* the FIXED record is written only after the commit attempt, and nothing is
\* committed for an error that was skipped or whose fix failed.
C26_WorkflowOrder ==
    /\ \A k \in 1..Len(steps) :
        /\ steps[k] = "decode" => k = 1
        /\ steps[k] = "fixError" => (k = 2 /\ steps[1] = "decode")
        /\ steps[k] = "commitChanges" =>
            (k = 3 /\ steps[2] = "fixError" /\ fixResult = "ok")
        /\ steps[k] = "record FIXED" => (k = 4 /\ steps[3] = "commitChanges")
    /\ (Took("record UNKNOWN_ERROR") \/ Took("record FAILED")) => ~Took("commitChanges")
    /\ fixResult \in {"failed", "threw"} => ~Took("commitChanges")

\* C26 witness: an error went through decode, fix, commit and FIXED record.
C26_Witness ==
    /\ steps = <<"decode", "fixError", "commitChanges", "record FIXED">>
    /\ fixResult = "ok"
    /\ db[errorsToProcess[errIdx]] = "FIXED"

\* C30: every error selected for processing in a run has a record in the
\* processed-errors DB (FIXED, FAILED or a skip reason) once the run is
\* over, and so is not selected again; this holds for an error that decodes
\* against a map without source content as well.
C30_SelectedGetsRecord ==
    (oPc = "ready" /\ runs >= 1) =>
        \A k \in 1..Len(errorsToProcess) : db[errorsToProcess[k]] # "none"

(***************************************************************************)
(* Claims about notification and statistics, checked under SpecOrch.       *)
(***************************************************************************)
\* C31: runOnce never rejects: every exception raised while collecting,
\* filtering, processing or notifying is handled inside runOnce, so a
\* failing collaborator, such as a webhook answering non-200, never ends
\* the loop of runContinuously.
C31_RunOnceNeverRejects ==
    oPc # "rejected"

\* C32: sendNotification reports every failure as a value and never
\* rejects: disabled, no webhook, transport error and non-200 response all
\* resolve to an object whose success is false.
C32_NotifyNeverRejects ==
    notifyResult # NullObject =>
        /\ notifyResult.settled = "resolved"
        /\ notifyResult.success = (slackEnabled /\ webhook = "valid" /\ notifyResult.reason = "none")

\* the failures sendNotification reports as values: disabled, no webhook,
\* and a webhook text that is no URL
C32_ConfigFailuresResolve ==
    (notifyResult # NullObject /\ (~slackEnabled \/ webhook # "valid")) =>
        /\ notifyResult.settled = "resolved"
        /\ ~notifyResult.success

\* the error of the call of processError that returned last in this run
LastReturned == errorsToProcess[IF oPc = "process" THEN errIdx - 1 ELSE errIdx]

\* the last step taken for the error in work
LastStep == steps[Len(steps)]

\* C33: after any sequence of calls of processError that return,
\* totalFixed + totalFailed + totalSkipped is the number of returned calls,
\* and each returned call has written exactly one record for the hash of
\* its error, of the status that matches the counter it incremented.
C33_StatsMatchRecords ==
    /\ stats.totalFixed + stats.totalFailed + stats.totalSkipped = returned
    /\ records.FIXED + records.FAILED + records.SKIPPED = returned
    /\ stats.totalFixed = records.FIXED
    /\ stats.totalFailed = records.FAILED
    /\ stats.totalSkipped = records.SKIPPED
    /\ (Len(steps) > 0 /\ LastStep = "record FIXED") => db[LastReturned] = "FIXED"
    /\ (Len(steps) > 0 /\ LastStep = "record FAILED") => db[LastReturned] = "FAILED"
    /\ (Len(steps) > 0 /\ LastStep = "record UNKNOWN_ERROR") =>
        db[LastReturned] = "UNKNOWN_ERROR"

\* C33 witness: three calls returned in one process, one of each outcome.
C33_Witness ==
    /\ returned = 3
    /\ stats.totalFixed = 1
    /\ stats.totalFailed = 1
    /\ stats.totalSkipped = 1
    /\ LastStep = "record FAILED"

\* the summary was posted: the notifier is enabled and has a webhook URL
Posted == summary # NullObject /\ slackEnabled /\ webhook = "valid"

\* C34: in every summary runOnce sends, fixed + failed + skipped <= total,
\* in 'once' mode and after any number of runs in continuous mode.
C34_SummaryConsistent ==
    Posted => summary.fixed + summary.failed + summary.skipped <= summary.total

\* in 'once' mode the counts of every summary are consistent
C34_ConsistentInOnceMode ==
    (Posted /\ mode = "once") =>
        summary.fixed + summary.failed + summary.skipped <= summary.total

(***************************************************************************)
(* The navigator of the CLI: processStackTrace and its key handler.        *)
(***************************************************************************)
\* most frames of a navigated trace
MaxEntries == 3
\* most renderings (displayCurrentEntry calls) in flight
MaxRendering == 2

\* a plausible slip: the last index is taken for a position to advance from
CanGoNextOffByOne(ci, n) == ci < n

\* if (currentIndex < parsed.length - 1)
CanGoNext(ci, n) == ci < n - 1

\* if (currentIndex > 0)
CanGoPrev(ci) == ci > 0

\* processStackTrace up to the first await: no frames, or raw mode (on a
\* terminal) and the rendering of the first entry
NavStart ==
    /\ navPc = "start"
    /\ IF navLen = 0
       THEN /\ navPc' = "ended"
            /\ UNCHANGED <<rawMode, rendering>>
       ELSE /\ navPc' = "first"
            /\ \E tty \in BOOLEAN : rawMode' = tty
            /\ rendering' = 1
    /\ UNCHANGED <<navLen, currentIndex, prevIndex, lastKey, listening>>

\* a rendering in flight completes; after the first one, onKeyPress is
\* registered
RenderDone ==
    /\ rendering > 0
    /\ rendering' = rendering - 1
    /\ IF navPc = "first"
       THEN navPc' = "navigating" /\ listening' = TRUE
       ELSE UNCHANGED <<navPc, listening>>
    /\ UNCHANGED <<navLen, currentIndex, prevIndex, lastKey, rawMode>>

\* onKeyPress for the right arrow, up to its await
KeyRight ==
    /\ listening
    /\ rendering < MaxRendering
    /\ prevIndex' = currentIndex
    /\ lastKey' = "right"
    /\ IF CanGoNext(currentIndex, navLen)
       THEN currentIndex' = currentIndex + 1 /\ rendering' = rendering + 1
       ELSE UNCHANGED <<currentIndex, rendering>>
    /\ UNCHANGED <<navLen, listening, rawMode, navPc>>

\* onKeyPress for the left arrow, up to its await
KeyLeft ==
    /\ listening
    /\ rendering < MaxRendering
    /\ prevIndex' = currentIndex
    /\ lastKey' = "left"
    /\ IF CanGoPrev(currentIndex)
       THEN currentIndex' = currentIndex - 1 /\ rendering' = rendering + 1
       ELSE UNCHANGED <<currentIndex, rendering>>
    /\ UNCHANGED <<navLen, listening, rawMode, navPc>>

\* onKeyPress for Enter: removeListener, setRawMode(false), pause, resolve
KeyEnter ==
    /\ listening
    /\ prevIndex' = currentIndex
    /\ lastKey' = "enter"
    /\ listening' = FALSE
    /\ rawMode' = FALSE
    /\ navPc' = "ended"
    /\ UNCHANGED <<navLen, currentIndex, rendering>>

\* onKeyPress for Ctrl+C: pause, setRawMode(false), process.exit(0)
KeyCtrlC ==
    /\ listening
    /\ prevIndex' = currentIndex
    /\ lastKey' = "ctrl-c"
    /\ listening' = FALSE
    /\ rawMode' = FALSE
    /\ navPc' = "exited"
    /\ rendering' = 0
    /\ UNCHANGED <<navLen, currentIndex>>

\* onKeyPress for any other chunk: nothing happens
KeyOther ==
    /\ listening
    /\ prevIndex' = currentIndex
    /\ lastKey' = "other"
    /\ UNCHANGED <<navLen, currentIndex, listening, rawMode, navPc, rendering>>

NavNext ==
    \/ (NavStart /\ UNCHANGED <<normVars, parseVars, decVars, resVars, ctxVars, orchVars, rlVars>>)
    \/ (RenderDone /\ UNCHANGED <<normVars, parseVars, decVars, resVars, ctxVars, orchVars, rlVars>>)
    \/ (KeyRight /\ UNCHANGED <<normVars, parseVars, decVars, resVars, ctxVars, orchVars, rlVars>>)
    \/ (KeyLeft /\ UNCHANGED <<normVars, parseVars, decVars, resVars, ctxVars, orchVars, rlVars>>)
    \/ (KeyEnter /\ UNCHANGED <<normVars, parseVars, decVars, resVars, ctxVars, orchVars, rlVars>>)
    \/ (KeyCtrlC /\ UNCHANGED <<normVars, parseVars, decVars, resVars, ctxVars, orchVars, rlVars>>)
    \/ (KeyOther /\ UNCHANGED <<normVars, parseVars, decVars, resVars, ctxVars, orchVars, rlVars>>)

InitNav ==
    /\ navLen \in 0..MaxEntries
    /\ currentIndex = 0
    /\ prevIndex = 0
    /\ lastKey = "none"
    /\ listening = FALSE
    /\ rawMode = FALSE
    /\ navPc = "start"
    /\ rendering = 0
    /\ fileName = <<>>
    /\ baseName = Null
    /\ baseName2 = Null
    /\ nPc = "idle"
    /\ stackTrace = <<>>
    /\ parsed = Null
    /\ pPc = "idle"
    /\ impl = "none"
    /\ ide = Null
    /\ dirExists = FALSE
    /\ dirFiles = <<>>
    /\ input = <<>>
    /\ entries = <<>>
    /\ idx = 0
    /\ dPc = "idle"
    /\ consumer = NullObject
    /\ live = 0
    /\ out = <<>>
    /\ result = NullObject
    /\ debug = FALSE
    /\ resolved = Null
    /\ resolved2 = Null
    /\ rLog = <<>>
    /\ rPc = "idle"
    /\ content = Null
    /\ position = [isNull |-> TRUE]
    /\ radius = 0
    /\ window = Null
    /\ wrapperWindow = Null
    /\ cPc = "idle"
    /\ mode = "once"
    /\ maxFixesPerRun = 1
    /\ dryRun = FALSE
    /\ maxRetries = 1
    /\ db = [h \in Hashes |-> "none"]
    /\ errorsToProcess = <<>>
    /\ errIdx = 0
    /\ oPc = "idle"
    /\ runs = 0
    /\ handed = 0
    /\ procCount = [h \in Hashes |-> 0]
    /\ steps = <<>>
    /\ retries = 0
    /\ attempts = 0
    /\ sleeps = 0
    /\ fixResult = "none"
    /\ rlLines = <<>>
    /\ emptyLineCount = 0
    /\ inputText = <<>>
    /\ submitted = Null
    /\ slackEnabled = FALSE
    /\ webhook = "unset"
    /\ notifyResult = [isNull |-> TRUE]
    /\ summary = [isNull |-> TRUE]
    /\ stats = [totalErrors |-> 0, totalFixed |-> 0, totalFailed |-> 0, totalSkipped |-> 0]
    /\ records = [FIXED |-> 0, FAILED |-> 0, SKIPPED |-> 0]
    /\ returned = 0
    /\ collected = 0

SpecNav == InitNav /\ [][NavNext]_vars

\* C28: after any sequence of key events, also those that arrive while an
\* earlier entry is still being rendered, currentIndex stays within
\* 0 .. parsed.length - 1: the right arrow moves to the next entry only when
\* not at the last, the left arrow to the previous only when not at the
\* first, and Enter removes the key listener, leaves raw mode and ends the
\* navigation.
C28_IndexInBounds ==
    /\ navLen > 0 => (currentIndex >= 0 /\ currentIndex <= navLen - 1)
    /\ lastKey = "right" =>
        currentIndex = (IF prevIndex < navLen - 1 THEN prevIndex + 1 ELSE prevIndex)
    /\ lastKey = "left" =>
        currentIndex = (IF prevIndex > 0 THEN prevIndex - 1 ELSE prevIndex)
    /\ lastKey = "enter" =>
        (~listening /\ ~rawMode /\ navPc = "ended" /\ currentIndex = prevIndex)

\* C28 witness: the right arrow was pressed at the last of three entries
\* while a rendering was in flight, and the index stayed.
C28_Witness ==
    /\ navLen = 3
    /\ lastKey = "right"
    /\ prevIndex = 2
    /\ currentIndex = 2
    /\ rendering = 1

(***************************************************************************)
(* The input reader of the CLI: getInput of interactiveMode.               *)
(***************************************************************************)
\* most lines read by one getInput
MaxInputLines == 4

\* the lines the reader may be given: empty, blank, and two of text
InputLines == {<<>>, <<" ">>, <<"a">>, <<"b", " ">>}

\* line.trim() === ''
IsEmptyLine(line) == Len(Trim(line)) = 0

\* a plausible slip: one empty line is enough
SubmitsNowAfterOne(count, text) == count >= 1 /\ Len(Trim(text)) > 0

\* emptyLineCount >= 2 && input.trim()
SubmitsNow(count, text) == count >= 2 /\ Len(Trim(text)) > 0

\* lineHandler: one 'line' event of the readline interface; on submission
\* the handler is removed and the interface closed
LineHandler ==
    /\ submitted = Null
    /\ Len(rlLines) < MaxInputLines
    /\ \E line \in InputLines :
        /\ rlLines' = Append(rlLines, line)
        /\ IF IsEmptyLine(line)
           THEN /\ emptyLineCount' = emptyLineCount + 1
                /\ inputText' = inputText
                /\ IF SubmitsNow(emptyLineCount', inputText)
                   THEN submitted' = inputText
                   ELSE submitted' = submitted
           ELSE /\ emptyLineCount' = 0
                /\ inputText' = inputText \o line \o <<"\n">>
                /\ submitted' = submitted

ReadNext == LineHandler /\ UNCHANGED <<normVars, parseVars, decVars, resVars, ctxVars, orchVars, navVars>>

InitRead ==
    /\ navLen = 0
    /\ currentIndex = 0
    /\ prevIndex = 0
    /\ lastKey = "none"
    /\ listening = FALSE
    /\ rawMode = FALSE
    /\ navPc = "idle"
    /\ rendering = 0
    /\ fileName = <<>>
    /\ baseName = Null
    /\ baseName2 = Null
    /\ nPc = "idle"
    /\ stackTrace = <<>>
    /\ parsed = Null
    /\ pPc = "idle"
    /\ impl = "none"
    /\ ide = Null
    /\ dirExists = FALSE
    /\ dirFiles = <<>>
    /\ input = <<>>
    /\ entries = <<>>
    /\ idx = 0
    /\ dPc = "idle"
    /\ consumer = NullObject
    /\ live = 0
    /\ out = <<>>
    /\ result = NullObject
    /\ debug = FALSE
    /\ resolved = Null
    /\ resolved2 = Null
    /\ rLog = <<>>
    /\ rPc = "idle"
    /\ content = Null
    /\ position = [isNull |-> TRUE]
    /\ radius = 0
    /\ window = Null
    /\ wrapperWindow = Null
    /\ cPc = "idle"
    /\ mode = "once"
    /\ maxFixesPerRun = 1
    /\ dryRun = FALSE
    /\ maxRetries = 1
    /\ db = [h \in Hashes |-> "none"]
    /\ errorsToProcess = <<>>
    /\ errIdx = 0
    /\ oPc = "idle"
    /\ runs = 0
    /\ handed = 0
    /\ procCount = [h \in Hashes |-> 0]
    /\ steps = <<>>
    /\ retries = 0
    /\ attempts = 0
    /\ sleeps = 0
    /\ fixResult = "none"
    /\ rlLines = <<>>
    /\ emptyLineCount = 0
    /\ inputText = <<>>
    /\ submitted = Null
    /\ slackEnabled = FALSE
    /\ webhook = "unset"
    /\ notifyResult = [isNull |-> TRUE]
    /\ summary = [isNull |-> TRUE]
    /\ stats = [totalErrors |-> 0, totalFixed |-> 0, totalFailed |-> 0, totalSkipped |-> 0]
    /\ records = [FIXED |-> 0, FAILED |-> 0, SKIPPED |-> 0]
    /\ returned = 0
    /\ collected = 0

SpecRead == InitRead /\ [][ReadNext]_vars

\* line k of the lines read is empty
EmptyAt(k) == IsEmptyLine(rlLines[k])

\* with line k, two consecutive empty lines have been read after at least
\* one non-empty line
TwoEmptyAfterText(k) ==
    /\ k >= 3
    /\ EmptyAt(k)
    /\ EmptyAt(k - 1)
    /\ \E j \in 1..(k - 2) : ~EmptyAt(j)

\* the non-empty lines among the first n lines read, in order, each with its
\* line end
RECURSIVE NonEmptyText(_)
NonEmptyText(n) ==
    IF n = 0 THEN <<>>
    ELSE IF EmptyAt(n) THEN NonEmptyText(n - 1)
    ELSE NonEmptyText(n - 1) \o rlLines[n] \o <<"\n">>

\* the number of empty lines at the end of the first n lines read
RECURSIVE TrailingEmpty(_)
TrailingEmpty(n) ==
    IF n = 0 \/ ~EmptyAt(n) THEN 0 ELSE 1 + TrailingEmpty(n - 1)

\* C29: the text is submitted exactly when at least two consecutive empty
\* lines have been read after at least one non-empty line; a non-empty line
\* resets the count of empty lines; the submitted text is the non-empty
\* lines in input order.
C29_SubmitRule ==
    /\ (submitted # Null) <=> (\E k \in 1..Len(rlLines) : TwoEmptyAfterText(k))
    /\ (submitted # Null) =>
        /\ TwoEmptyAfterText(Len(rlLines))
        /\ \A k \in 1..(Len(rlLines) - 1) : ~TwoEmptyAfterText(k)
        /\ NonEmptyText(Len(rlLines)) = submitted
    /\ emptyLineCount = TrailingEmpty(Len(rlLines))
    /\ inputText = NonEmptyText(Len(rlLines))

\* C29 witness: an empty line, a line of text, a blank line and an empty
\* line were read, and the line of text was submitted.
C29_Witness ==
    /\ rlLines = << <<>>, <<"a">>, <<" ">>, <<>> >>
    /\ <<"a", "\n">> = submitted

(***************************************************************************)
(* The CLI and the wrapper, checked under SpecContext.                     *)
(***************************************************************************)
\* C27: the CLI and the wrapper implement the same logic: for the same
\* content, position and configured radius (radius 0 included) the CLI's
\* getSourceContext and the wrapper's build the same window. (The parser,
\* the normalizer and the resolver of the two programs are the same text.)
C27_SameWindow ==
    HasWindow => window = wrapperWindow

\* with a positive configured radius the two windows are equal
C27_SameWindowPositiveRadius ==
    (HasWindow /\ radius > 0) => window = wrapperWindow

====
